---- MODULE Spec2Model ----
(***************************************************************************)
(* Model of the chat orchestration engine of hq:                           *)
(*   src/src/openai/core.rs   Message, completion, completion_stream       *)
(*   src/src/ai/chat/core.rs  Chat::next_msg, Chat::chat, Chat::chat_stream,*)
(*                            Chat::handle_tool_call(s), ChatBuilder       *)
(*   src/src/chat/db.rs       get_or_create_session, insert_chat_message   *)
(*                                                                         *)
(* Text is a sequence of tokens, so that concatenation and order are       *)
(* observable.  An Option is a sequence of length at most one.             *)
(***************************************************************************)
EXTENDS Integers, Sequences, FiniteSets, TLC

VARIABLES
    \* ---- completion_stream (one streaming exchange) ----
    stream,        \* the frames delimited in the receive buffer so far
    pos,           \* number of frames extracted and handled
    acc,           \* content_buf, reasoning_buf, tool_calls
    rx,            \* what the sink has received in this exchange / turn
    receiver,      \* who holds the receiver of the sink: "held" by the scope
                   \* that awaits the call, handed to a "client", or "dropped"
    spc,           \* position of completion_stream
    sresult,       \* the value completion_stream returned
    chunks,        \* the transport chunks of the response body
    received,      \* number of chunks stream.next() has returned
    buffer,        \* the receive buffer
    \* ---- Chat (one session) ----
    streaming, tools, db,      \* fields of Chat fixed by ChatBuilder
    session_id, tags,
    tx,                        \* the sink of Chat (Option)
    transcript,                \* Chat.transcript
    pc,                        \* position of next_msg
    msg,                       \* the argument of next_msg
    updated_history, messages, \* locals of Chat::chat / Chat::chat_stream
    resp,                      \* the last model response
    futures,                   \* the futures of handle_tool_calls
    persisted,                 \* messages of `messages` already stored
    ret,                       \* what next_msg returned last
    session, tag, session_tag, chat_message,   \* tables of the store
    \* ---- history variables ----
    before,        \* transcript and store when next_msg was called
    requests,      \* the histories sent to the model in this turn
    batches,       \* the batches of requests dispatched in this turn
    completed,     \* order in which the capability invocations completed
    transport,     \* what happened on the wire in the last exchange
    arrived,       \* the frames that arrived in each exchange of this turn
    \* ---- the free functions and the HTTP handler ----
    loops,         \* a run of the loops of openai/chat.rs and of Chat on one input
    handlers       \* the requests chat_handler is serving, with their locals

wireVars == <<chunks, received, buffer>>
streamVars == <<stream, pos, acc, rx, receiver, spc, sresult, wireVars>>
cfgVars == <<streaming, tools, db, session_id, tags, tx>>
serverVars == <<loops, handlers>>
storeVars == <<session, tag, session_tag, chat_message>>
histVars == <<before, requests, batches, completed, transport, arrived>>
chatVars == <<cfgVars, serverVars, transcript, pc, msg, updated_history, messages, resp,
              futures, persisted, ret, storeVars, histVars>>
vars == <<streamVars, chatVars>>

----------------------------------------------------------------------------
\* Bounds of the model
MaxFrames == 4
MaxTranscript == 3
MaxRounds == 2
MaxCalls == 2
MaxRequests == 2

----------------------------------------------------------------------------
\* Option<T>
None == <<>>
Some(x) == <<x>>
IsSome(o) == o # None
Unwrap(o) == o[1]

RECURSIVE ConcatAll(_)
ConcatAll(ss) == IF ss = <<>> THEN <<>> ELSE Head(ss) \o ConcatAll(Tail(ss))

IsPrefix(s, t) == Len(s) <= Len(t) /\ SubSeq(t, 1, Len(s)) = s

----------------------------------------------------------------------------
\* Message (openai/core.rs)

NewMessage(role, content) ==
    [role |-> role, content |-> Some(content), tool_call_id |-> None,
     tool_calls |-> None]

\* a request message that also carries an (empty) content
NewToolCallRequestWithContent(tool_calls) ==
    [role |-> "assistant", content |-> Some(<<>>), tool_call_id |-> None,
     tool_calls |-> Some(tool_calls)]

NewToolCallRequest(tool_calls) ==
    [role |-> "assistant", content |-> None, tool_call_id |-> None,
     tool_calls |-> Some(tool_calls)]

NewToolCallResponse(content, tool_call_id) ==
    [role |-> "tool", content |-> Some(content),
     tool_call_id |-> Some(tool_call_id), tool_calls |-> None]

FunctionCall(id, name, arguments) ==
    [function |-> [arguments |-> arguments, name |-> name], id |-> id,
     type |-> "function"]

\* a serializer without skip_serializing_if: an absent Option is written as null
SerializeWithNulls(m) ==
    [k \in {"role", "content", "tool_call_id", "tool_calls"} |->
        IF k = "role" THEN m[k] ELSE IF IsSome(m[k]) THEN Unwrap(m[k]) ELSE "null"]

\* json!(msg): the keys of the absent Options are skipped
PresentKeys(m) ==
    {"role"} \cup {k \in {"content", "tool_call_id", "tool_calls"} : IsSome(m[k])}
Serialize(m) == [k \in PresentKeys(m) |-> IF k = "role" THEN m[k] ELSE Unwrap(m[k])]

----------------------------------------------------------------------------
\* Stream frames as the endpoint emits them.  A sub-delta of tool_calls
\* carries the keys the endpoint chose to send; serde decides the variant.

RawSub(index, id, name, arguments, type) ==
    [index |-> index, id |-> id, name |-> name, arguments |-> arguments,
     type |-> type]

\* #[serde(untagged)] enum ToolCallChunk: the first variant whose fields
\* are all present
ToolCallChunk(raw) ==
    IF IsSome(raw.id) /\ IsSome(raw.name) /\ IsSome(raw.arguments) /\ IsSome(raw.type)
    THEN [kind |-> "Init", index |-> raw.index, id |-> Unwrap(raw.id),
          name |-> Unwrap(raw.name), arguments |-> Unwrap(raw.arguments)]
    ELSE IF IsSome(raw.arguments) /\ IsSome(raw.type)
    THEN [kind |-> "ArgsDelta", index |-> raw.index, id |-> <<>>, name |-> "",
          arguments |-> Unwrap(raw.arguments)]
    ELSE [kind |-> "Unparsed", index |-> raw.index, id |-> <<>>, name |-> "",
          arguments |-> <<>>]

\* #[serde(untagged)] enum Delta: Content, Reasoning, ToolCall, Stop in
\* that order; Stop {} accepts every object
Delta(raw) ==
    IF IsSome(raw.content) THEN [kind |-> "Content", text |-> Unwrap(raw.content), subs |-> <<>>]
    ELSE IF IsSome(raw.reasoning) THEN [kind |-> "Reasoning", text |-> Unwrap(raw.reasoning), subs |-> <<>>]
    ELSE IF /\ IsSome(raw.tool_calls)
            /\ \A i \in 1..Len(Unwrap(raw.tool_calls)) :
                   ToolCallChunk(Unwrap(raw.tool_calls)[i]).kind # "Unparsed"
    THEN [kind |-> "ToolCall", text |-> <<>>,
          subs |-> [i \in 1..Len(Unwrap(raw.tool_calls)) |->
                       ToolCallChunk(Unwrap(raw.tool_calls)[i])]]
    ELSE [kind |-> "Stop", text |-> <<>>, subs |-> <<>>]

NoDelta == [content |-> None, reasoning |-> None, tool_calls |-> None]

\* kinds of frame: "skip" (empty event, no "data: " prefix or empty data),
\* "done" ([DONE]), "malformed" (not a CompletionChunk), "nochoices"
\* (a CompletionChunk with an empty choices list), "chunk"
Frame(kind, delta, finish) == [kind |-> kind, delta |-> delta, finish |-> finish]
ContentFrame(text, finish) == Frame("chunk", [NoDelta EXCEPT !.content = Some(text)], finish)
ReasoningFrame(text, finish) == Frame("chunk", [NoDelta EXCEPT !.reasoning = Some(text)], finish)
ToolCallFrame(subs, finish) == Frame("chunk", [NoDelta EXCEPT !.tool_calls = Some(subs)], finish)
EmptyDeltaFrame(finish) == Frame("chunk", NoDelta, finish)
DoneFrame == Frame("done", NoDelta, FALSE)
MalformedFrame == Frame("malformed", NoDelta, FALSE)
NoChoicesFrame == Frame("nochoices", NoDelta, FALSE)
SkipFrame == Frame("skip", NoDelta, FALSE)

\* the text of a frame between two delimiters: "data: " and the payload; a
\* skipped frame is an empty event, a line without the prefix or an empty
\* payload
RawText(f) == [prefix |-> IF f.kind = "skip" THEN "" ELSE "data: ", data |-> f]

\* a forwarding of the event text as it is in the buffer
EventDataRaw(raw) == raw

\* event_data[6..].trim(): the payload without the "data: " prefix
EventData(raw) == [raw EXCEPT !.prefix = ""]

InitSub(index, id, name, arguments) ==
    RawSub(index, Some(id), Some(name), Some(arguments), Some("function"))
ArgsSub(index, arguments) ==
    RawSub(index, None, None, Some(arguments), Some("function"))
\* the continuation sub-delta of the streaming tests: index and arguments only
BareArgsSub(index, arguments) ==
    RawSub(index, None, None, Some(arguments), None)

----------------------------------------------------------------------------
\* completion_stream (openai/core.rs)

EmptyAcc == [content_buf |-> <<>>, reasoning_buf |-> <<>>, tool_calls |-> <<>>]

ToolCallFinal(id, index, name, arguments) ==
    [id |-> id, index |-> index, name |-> name, arguments |-> arguments]

\* HashMap::insert
Insert(m, k, v) == [i \in DOMAIN m \cup {k} |-> IF i = k THEN v ELSE m[i]]

\* a += that puts the new text in front
PushStrFront(buf, text) == text \o buf

\* content_buf += &content / reasoning_buf += &reasoning
PushStr(buf, text) == buf \o text

\* an entry(index).or_insert_with(..) that creates the entry it does not find
EntryOrInsertArgs(m, index, args) ==
    IF index \in DOMAIN m
    THEN [m EXCEPT ![index].arguments = PushStr(m[index].arguments, args)]
    ELSE Insert(m, index, ToolCallFinal(<<>>, index, "", args))

\* an and_modify that overwrites the arguments with the fragment
AndModifyArgsReplace(m, index, args) ==
    IF index \in DOMAIN m
    THEN [m EXCEPT ![index].arguments = args]
    ELSE m

\* tool_calls.entry(index).and_modify(|v| v.function.arguments += &args)
AndModifyArgs(m, index, args) ==
    IF index \in DOMAIN m
    THEN [m EXCEPT ![index].arguments = PushStr(m[index].arguments, args)]
    ELSE m

\* a match whose ArgsDelta arm writes the entry anew, as the Init arm does
ApplyToolCallChunkUpsert(m, sd) ==
    Insert(m, sd.index, ToolCallFinal(sd.id, sd.index, sd.name, sd.arguments))

\* one arm of `match tool_call_delta`
ApplyToolCallChunk(m, sd) ==
    IF sd.kind = "Init"
    THEN Insert(m, sd.index, ToolCallFinal(sd.id, sd.index, sd.name, sd.arguments))
    ELSE AndModifyArgs(m, sd.index, sd.arguments)

\* for tool_call_delta in tool_call_deltas.iter()
RECURSIVE ApplyToolCallChunks(_, _)
ApplyToolCallChunks(m, sds) ==
    IF sds = <<>> THEN m
    ELSE ApplyToolCallChunks(ApplyToolCallChunk(m, Head(sds)), Tail(sds))

\* a match that appends the delta before it looks at finish_reason
MatchDeltaAppending(a, d, finish) ==
    LET status == IF d.kind = "Stop" \/ finish THEN "break" ELSE "continue"
    IN  IF d.kind = "Stop" THEN [acc |-> a, status |-> status]
        ELSE IF d.kind = "Reasoning"
        THEN [acc |-> [a EXCEPT !.reasoning_buf = PushStr(a.reasoning_buf, d.text)],
              status |-> status]
        ELSE IF d.kind = "Content"
        THEN [acc |-> [a EXCEPT !.content_buf = PushStr(a.content_buf, d.text)],
              status |-> status]
        ELSE [acc |-> [a EXCEPT !.tool_calls = ApplyToolCallChunks(a.tool_calls, d.subs)],
              status |-> status]

\* `match &choice.delta`: the accumulator after the frame and whether the
\* loop goes on
MatchDelta(a, d, finish) ==
    IF d.kind = "Stop" \/ finish
    THEN [acc |-> a, status |-> "break"]
    ELSE IF d.kind = "Reasoning"
    THEN [acc |-> [a EXCEPT !.reasoning_buf = PushStr(a.reasoning_buf, d.text)],
          status |-> "continue"]
    ELSE IF d.kind = "Content"
    THEN [acc |-> [a EXCEPT !.content_buf = PushStr(a.content_buf, d.text)],
          status |-> "continue"]
    ELSE [acc |-> [a EXCEPT !.tool_calls = ApplyToolCallChunks(a.tool_calls, d.subs)],
          status |-> "continue"]

\* one iteration of `while let Some(event_end) = buffer.find("\n\n")`:
\* sent tells whether the frame was forwarded to the sink
StreamStep(a, f) ==
    IF f.kind = "skip" THEN [acc |-> a, status |-> "continue", sent |-> FALSE]
    ELSE IF f.kind = "done" THEN [acc |-> a, status |-> "break", sent |-> TRUE]
    ELSE IF f.kind = "malformed" THEN [acc |-> a, status |-> "err", sent |-> TRUE]
    ELSE IF f.kind = "nochoices" THEN [acc |-> a, status |-> "panic", sent |-> TRUE]
    ELSE LET r == MatchDelta(a, Delta(f.delta), f.finish)
         IN  [acc |-> r.acc, status |-> r.status, sent |-> TRUE]

\* a value of the response: choices[0].message
Response(content, tool_calls) == [content |-> content, tool_calls |-> tool_calls]
\* an element of message.tool_calls as the loop reads it
RawCall(id, name, arguments, index) ==
    [id |-> id, name |-> name, arguments |-> arguments, index |-> index]

\* the orders in which HashMap::values() can iterate over the entries
RECURSIVE Orders(_)
Orders(S) ==
    IF S = {} THEN {<<>>}
    ELSE UNION {{<<k>> \o o : o \in Orders(S \ {k})} : k \in S}

\* an assembly that returns the content buffer along with the tool calls
AssembleBoth(a, order) ==
    Response(Some(a.content_buf),
             IF DOMAIN a.tool_calls # {}
             THEN Some([i \in 1..Len(order) |->
                          RawCall(Some(a.tool_calls[order[i]].id),
                                  Some(a.tool_calls[order[i]].name),
                                  Some(a.tool_calls[order[i]].arguments),
                                  Some(a.tool_calls[order[i]].index))])
             ELSE None)

\* "Handle if this is a tool call or a content message"
Assemble(a, order) ==
    IF DOMAIN a.tool_calls # {}
    THEN Response(None,
           Some([i \in 1..Len(order) |->
                   RawCall(Some(a.tool_calls[order[i]].id),
                           Some(a.tool_calls[order[i]].name),
                           Some(a.tool_calls[order[i]].arguments),
                           Some(a.tool_calls[order[i]].index))]))
    ELSE Response(Some(a.content_buf), None)

NoResponse == Response(None, None)

\* ---- the frames the model draws from ----
Indices == {0, 1}
Call0 == InitSub(0, <<"call", 0>>, "mock_tool", <<"{q:">>)
Call1 == InitSub(1, <<"call", 1>>, "other_tool", <<"{r:">>)
FrameUniverse ==
    { ContentFrame(<<"Hello">>, FALSE), ContentFrame(<<" World">>, FALSE),
      ContentFrame(<<"!">>, TRUE), ReasoningFrame(<<"Thinking">>, FALSE),
      ReasoningFrame(<<"Done">>, TRUE),
      EmptyDeltaFrame(FALSE), EmptyDeltaFrame(TRUE),
      DoneFrame, MalformedFrame, NoChoicesFrame,
      SkipFrame,
      ToolCallFrame(<<Call0>>, FALSE), ToolCallFrame(<<Call1>>, FALSE),
      ToolCallFrame(<<Call0, Call1>>, FALSE),
      ToolCallFrame(<<ArgsSub(0, <<"test}">>)>>, FALSE),
      ToolCallFrame(<<ArgsSub(1, <<"x}">>), ArgsSub(0, <<"y">>)>>, FALSE),
      ToolCallFrame(<<BareArgsSub(0, <<"test}">>)>>, FALSE),
      ToolCallFrame(<<ArgsSub(0, <<"z">>)>>, TRUE),
      ToolCallFrame(<<InitSub(0, <<"call", 9>>, "other_tool", <<"{s:">>)>>, FALSE) }

SeqsUpTo(S, n) == UNION {[1..k -> S] : k \in 0..n}

NoRet == [status |-> "none", cause |-> "", messages |-> <<>>]

\* no loop was run and no request has reached chat_handler
NoLoops == <<>>
NoHandlers == <<>>

\* the state of a Chat right after ChatBuilder::build, with an empty store
ChatBuilt ==
    /\ pc = "idle" /\ msg = None
    /\ updated_history = <<>> /\ messages = <<>> /\ resp = NoResponse
    /\ futures = <<>> /\ persisted = 0 /\ ret = NoRet
    /\ before = [transcript |-> transcript, rows |-> Len(chat_message),
                 store |-> storeVars]
    /\ requests = <<>> /\ batches = <<>> /\ completed = <<>>
    /\ transport = "none" /\ arrived = <<>>
    /\ loops = NoLoops /\ handlers = NoHandlers

ChatIdle ==
    /\ streaming = TRUE /\ tools = None /\ db = FALSE
    /\ session_id = None /\ tags = None /\ tx = Some("tx")
    /\ transcript = <<>>
    /\ session = <<>> /\ tag = <<>> /\ session_tag = <<>> /\ chat_message = <<>>
    /\ ChatBuilt

InitStream ==
    /\ stream = <<>>
    /\ pos = 0 /\ acc = EmptyAcc /\ rx = <<>> /\ receiver = "held" /\ spc = "read"
    /\ sresult = NoResponse
    /\ chunks = <<>> /\ received = 0 /\ buffer = <<>>
    /\ ChatIdle

\* reqwest ... .send().await? fails
StreamConnectFail ==
    /\ spc = "read" /\ pos = 0 /\ rx = <<>> /\ receiver = "held" /\ acc = EmptyAcc
    /\ spc' = "err"
    /\ UNCHANGED <<stream, pos, acc, rx, receiver, sresult, wireVars, chatVars>>

\* the next frame of the receive buffer is extracted and handled
StreamFrame ==
    /\ spc = "read" /\ pos < MaxFrames
    /\ \E f \in FrameUniverse :
        LET r == StreamStep(acc, f)
        IN  /\ stream' = Append(stream, f)
            /\ pos' = pos + 1
            /\ acc' = r.acc
            /\ rx' = IF r.sent THEN Append(rx, EventData(RawText(f))) ELSE rx
            /\ UNCHANGED receiver
            /\ spc' = CASE r.status = "continue" -> "read"
                        [] r.status = "break" -> "assemble"
                        [] OTHER -> r.status
    /\ UNCHANGED <<sresult, wireVars, chatVars>>

\* the frame ends the exchange when it is handled
Terminates(f) ==
    \/ f.kind = "done"
    \/ f.kind = "chunk" /\ (f.finish \/ Delta(f.delta).kind = "Stop")

\* the frames that follow the one that ended the exchange in the buffer
UnreadFrames == {DoneFrame}

\* a frame arrives behind the frame that ended the exchange: `break 'outer`
\* has left the loops and it stays in the buffer
StreamUnread ==
    /\ spc = "assemble" /\ pos >= 1 /\ Terminates(stream[pos])
    /\ Len(stream) < MaxFrames
    /\ \E f \in UnreadFrames : stream' = Append(stream, f)
    /\ UNCHANGED <<pos, acc, rx, receiver, spc, sresult, wireVars, chatVars>>

\* stream.next() returns None
StreamEnd ==
    /\ spc = "read"
    /\ spc' = "assemble"
    /\ UNCHANGED <<stream, pos, acc, rx, receiver, sresult, wireVars, chatVars>>

\* the result is assembled and returned
StreamAssemble ==
    /\ spc = "assemble"
    /\ \E order \in Orders(DOMAIN acc.tool_calls) :
           sresult' = Assemble(acc, order)
    /\ spc' = "ok"
    /\ UNCHANGED <<stream, pos, acc, rx, receiver, wireVars, chatVars>>

NextStream ==
    StreamConnectFail \/ StreamFrame \/ StreamUnread \/ StreamEnd \/ StreamAssemble

SpecStream == InitStream /\ [][NextStream]_vars

----------------------------------------------------------------------------
\* completion_stream at the level of the bytes: the body arrives in transport
\* chunks.  A byte is a token: NL, a byte of an event's text, or one of the
\* two bytes of a two-byte character.  The text <<"D">> stands for the event
\* `data: [DONE]`, the text <<"T">> for the event that carries the Init
\* sub-delta of call 0, every other non-empty text for a content event.

NL == "\n"
Lead == "c3"
Cont == "a9"

\* the bodies the endpoint sends
Bodies ==
    { <<"a", NL, NL, Lead, Cont, NL, NL, "D", NL, NL>>,
      <<"a", NL, NL, NL, "b", NL, NL, "D">>,
      <<"T", NL, NL, "a", NL, NL, "t">>,
      <<"x", "y">> }

\* the body b cut behind the positions of cuts
RECURSIVE ChunksAt(_, _, _)
ChunksAt(b, cuts, from) ==
    IF from > Len(b) THEN <<>>
    ELSE LET to == IF \E c \in cuts : c >= from
                   THEN CHOOSE c \in cuts : c >= from /\ \A d \in cuts : d >= from => c <= d
                   ELSE Len(b)
         IN  <<SubSeq(b, from, to)>> \o ChunksAt(b, cuts, to + 1)

\* every partition of the body into non-empty chunks
Partitions(b) == {ChunksAt(b, cuts, 1) : cuts \in SUBSET (1..(Len(b) - 1))}

\* std::str::from_utf8(&chunk) succeeds
ValidUtf8(c) ==
    \A i \in 1..Len(c) :
        /\ c[i] = Lead => (i < Len(c) /\ c[i + 1] = Cont)
        /\ c[i] = Cont => (i > 1 /\ c[i - 1] = Lead)

\* str::trim
RECURSIVE Trim(_)
Trim(t) ==
    IF t = <<>> THEN t
    ELSE IF Head(t) = NL THEN Trim(Tail(t))
    ELSE IF t[Len(t)] = NL THEN Trim(SubSeq(t, 1, Len(t) - 1))
    ELSE t

\* buffer.find("\n\n")
HasDelimiter(buf) == \E i \in 1..(Len(buf) - 1) : buf[i] = NL /\ buf[i + 1] = NL
Find2NL(buf) ==
    CHOOSE i \in 1..(Len(buf) - 1) :
        /\ buf[i] = NL /\ buf[i + 1] = NL
        /\ \A j \in 1..(i - 1) : ~(buf[j] = NL /\ buf[j + 1] = NL)

\* while let Some(event_end) = buffer.find("\n\n") { ... }: the events of
\* the buffer are extracted and handled until none is complete or one ends
\* the exchange
RECURSIVE ProcessBuffer(_, _, _, _)
ProcessBuffer(buf, a, sent, frames) ==
    IF ~HasDelimiter(buf)
    THEN [buffer |-> buf, acc |-> a, rx |-> sent, stream |-> frames,
          status |-> "continue"]
    ELSE LET event_end == Find2NL(buf)
             event_data == Trim(SubSeq(buf, 1, event_end - 1))
             rest == SubSeq(buf, event_end + 2, Len(buf))
         IN  IF event_data = <<>>
             THEN ProcessBuffer(rest, a, sent, Append(frames, event_data))
             ELSE IF event_data = <<"D">>
             THEN [buffer |-> rest, acc |-> a, rx |-> Append(sent, event_data),
                   stream |-> Append(frames, event_data), status |-> "break"]
             ELSE IF event_data = <<"T">>
             THEN ProcessBuffer(rest,
                      MatchDelta(a, Delta(ToolCallFrame(<<Call0>>, FALSE).delta), FALSE).acc,
                      Append(sent, event_data), Append(frames, event_data))
             ELSE ProcessBuffer(rest,
                      [a EXCEPT !.content_buf = PushStr(a.content_buf, event_data)],
                      Append(sent, event_data), Append(frames, event_data))

InitChunks ==
    /\ \E b \in Bodies : chunks \in Partitions(b)
    /\ received = 0 /\ buffer = <<>>
    /\ stream = <<>> /\ pos = 0 /\ acc = EmptyAcc /\ rx = <<>> /\ receiver = "held" /\ spc = "read"
    /\ sresult = NoResponse
    /\ ChatIdle

\* one iteration of `while let Some(chunk) = stream.next().await`
ChunkArrive ==
    /\ spc = "read" /\ received < Len(chunks)
    /\ received' = received + 1
    /\ LET chunk == chunks[received + 1]
       IN  IF ~ValidUtf8(chunk)
           THEN /\ spc' = "err"
                /\ UNCHANGED <<buffer, stream, pos, acc, rx, receiver>>
           ELSE LET r == ProcessBuffer(buffer \o chunk, acc, rx, stream)
                IN  /\ buffer' = r.buffer /\ acc' = r.acc /\ rx' = r.rx
                    /\ UNCHANGED receiver
                    /\ stream' = r.stream /\ pos' = Len(r.stream)
                    /\ spc' = IF r.status = "break" THEN "assemble" ELSE "read"
    /\ UNCHANGED <<chunks, sresult, chatVars>>

\* an end of the stream that handles what is left in the buffer as an event
ChunkEndFlushing ==
    /\ spc = "read" /\ received = Len(chunks)
    /\ LET r == ProcessBuffer(buffer \o <<NL, NL>>, acc, rx, stream)
       IN  /\ buffer' = r.buffer /\ acc' = r.acc /\ rx' = r.rx
           /\ stream' = r.stream /\ pos' = Len(r.stream)
    /\ spc' = "assemble"
    /\ UNCHANGED <<chunks, received, receiver, sresult, chatVars>>

\* stream.next() returns None
ChunkEnd ==
    /\ spc = "read" /\ received = Len(chunks)
    /\ spc' = "assemble"
    /\ UNCHANGED <<stream, pos, acc, rx, receiver, sresult, wireVars, chatVars>>

NextChunks == ChunkArrive \/ ChunkEnd \/ StreamAssemble

SpecChunks == InitChunks /\ [][NextChunks]_vars

----------------------------------------------------------------------------
\* The model endpoint as the loop sees it

\* completion_stream run over a whole stream of frames from accumulator a
RECURSIVE RunStream(_, _, _)
RunStream(a, s, sent) ==
    IF s = <<>> THEN [status |-> "ok", acc |-> a, sent |-> sent]
    ELSE LET r == StreamStep(a, Head(s))
             sent2 == IF r.sent THEN Append(sent, EventData(RawText(Head(s)))) ELSE sent
         IN  IF r.status = "continue" THEN RunStream(r.acc, Tail(s), sent2)
             ELSE [status |-> IF r.status = "break" THEN "ok" ELSE r.status,
                   acc |-> r.acc, sent |-> sent2]

\* what the client returns and what happened on the wire: "ok" (a success
\* status and a body read to its end), "connect" (send() fails), "body"
\* (reading the body fails), "status" (a non-success status, whose body is
\* an error document without frames)
WireOutcome(wire, status, r) ==
    [status |-> status, resp |-> r, sent |-> <<>>, transport |-> wire,
     stream |-> <<>>, open |-> TRUE]

Outcome(status, r, sent) ==
    [status |-> status, resp |-> r, sent |-> sent, transport |-> "ok",
     stream |-> <<>>, open |-> TRUE]

\* the outcomes completion_stream can have on the stream s
CompletionStream(s) ==
    LET run == RunStream(EmptyAcc, s, <<>>)
    IN  IF run.status = "ok"
        THEN {[Outcome("ok", Assemble(run.acc, o), run.sent) EXCEPT !.stream = s] :
                 o \in Orders(DOMAIN run.acc.tool_calls)}
        ELSE {[Outcome(run.status, NoResponse, run.sent) EXCEPT !.stream = s]}

\* the streams the endpoint answers with when the loop runs in streaming mode
LoopStreams ==
    { <<ContentFrame(<<"Hello">>, FALSE), ContentFrame(<<" World">>, FALSE),
        ContentFrame(<<"!">>, TRUE), DoneFrame>>,
      <<ContentFrame(<<"Found it">>, FALSE), DoneFrame>>,
      <<ToolCallFrame(<<Call0>>, FALSE),
        ToolCallFrame(<<ArgsSub(0, <<"test}">>)>>, FALSE), DoneFrame>>,
      <<ToolCallFrame(<<Call0, Call1>>, FALSE), DoneFrame>>,
      <<ToolCallFrame(<<InitSub(0, <<"call", 9>>, "missing_tool", <<"{s:">>)>>, FALSE),
        DoneFrame>>,
      <<DoneFrame>>,
      <<ContentFrame(<<"Hello">>, FALSE), MalformedFrame>>,
      <<NoChoicesFrame>> }

\* send().await? fails; a chunk of the body fails (`expect`); the status is
\* not checked and the body is decoded like any other; or the stream is read
StreamOutcomes ==
    {WireOutcome("connect", "err", NoResponse), WireOutcome("body", "panic", NoResponse)}
    \cup {WireOutcome("status", o.status, o.resp) : o \in CompletionStream(<<>>)}
    \cup UNION {CompletionStream(s) : s \in LoopStreams}

\* the tool_calls lists a buffered response can carry: k well-formed
\* requests, or the same with request j replaced by a defective one
CallId(i) == <<"call", i>>
GoodCall(i) ==
    IF i % 2 = 1
    THEN RawCall(Some(CallId(i)), Some("mock_tool"), Some(<<"{q:test}">>), None)
    ELSE RawCall(Some(CallId(i)), Some("other_tool"), Some(<<"{}">>), None)
BadCalls(i) ==
    { [GoodCall(i) EXCEPT !.name = Some("missing_tool")],
      [GoodCall(i) EXCEPT !.id = None],
      [GoodCall(i) EXCEPT !.name = None],
      [GoodCall(i) EXCEPT !.arguments = None] }
GoodCalls(k) == [i \in 1..k |-> GoodCall(i)]
CallLists ==
    {GoodCalls(k) : k \in 1..MaxCalls} \cup
    UNION {{[GoodCalls(k) EXCEPT ![j] = bad] : bad \in BadCalls(j)} :
              <<k, j>> \in {kj \in (1..MaxCalls) \X (1..MaxCalls) : kj[2] <= kj[1]}}

Contents == {<<"Hello!">>, <<"Found it">>}

\* completion: send().await? or json().await? fails; the status is not
\* checked and the error document is returned if it is JSON; or the body of
\* a success status is no JSON, or it is parsed
BufferedOutcomes ==
    {WireOutcome("connect", "err", NoResponse), WireOutcome("body", "err", NoResponse),
     WireOutcome("status", "err", NoResponse), WireOutcome("status", "ok", NoResponse),
     Outcome("err", NoResponse, <<>>)}
    \cup {Outcome("ok", Response(c, t), <<>>) :
            c \in {None} \cup {Some(x) : x \in Contents}, t \in {None, Some(<<>>)}}
    \cup {Outcome("ok", Response(c, Some(l)), <<>>) :
            c \in {None, Some(<<"Hello!">>)}, l \in CallLists}

\* tx.send(data) on the unbounded channel fails once the receiver is dropped
SendResult(open) == IF open THEN "ok" ELSE "err"
\* `tx.send(data)?`: the error of the send is returned
SendPropagated(res) == res
\* `let _ = tx.send(data)`: the result of the send is dropped
SendIgnored(res) == "ok"

\* the exchange o when the receiver is there for the first n sends only: the
\* later sends fail, and `open` tells whether all were received
WithSink(o, n) ==
    LET failed == \E k \in 1..Len(o.sent) : SendIgnored(SendResult(k <= n)) = "err"
    IN  [o EXCEPT !.sent = SubSeq(o.sent, 1, n),
                  !.status = IF failed THEN "err" ELSE @,
                  !.resp = IF failed THEN NoResponse ELSE @,
                  !.open = (n = Len(o.sent))]
\* a receiver held by the awaiting scope outlives the exchange; a client may
\* drop its receiver before any send of the exchange
SinkOutcomes(o) ==
    {WithSink(o, n) : n \in CASE receiver = "held" -> {Len(o.sent)}
                               [] receiver = "client" -> 0..Len(o.sent)
                               [] OTHER -> {0}}

ModelOutcomes ==
    IF streaming THEN UNION {SinkOutcomes(o) : o \in StreamOutcomes}
    ELSE BufferedOutcomes

\* resp["choices"][0]["message"]["tool_calls"].as_array() is a non-empty array
HasToolCalls(r) == IsSome(r.tool_calls) /\ Unwrap(r.tool_calls) # <<>>

----------------------------------------------------------------------------
\* Capabilities and the dispatcher (Chat::handle_tool_call, handle_tool_calls)

ToolNames == <<"mock_tool", "other_tool">>

\* ToolCall::call when it succeeds
CallResult(name, args) ==
    IF name = "mock_tool" THEN <<"mock result">> ELSE <<"other result">> \o args

\* a lookup that compares the names up to their common ending "_tool" only
FindAnyTool(tls, name) == 1..Len(tls)

\* tools.iter().find(|i| *i.function_name() == *tool_call_name): the
\* capabilities the closure accepts, and the first of them, which find returns
Find(tls, name) == {i \in 1..Len(tls) : tls[i] = name}
FindFirst(tls, name) ==
    CHOOSE i \in Find(tls, name) : \A j \in Find(tls, name) : i <= j

\* handle_tool_call up to `.call(tool_call_args).await`: does it reach the call
Resolves(tls, call) ==
    /\ IsSome(call.id)
    /\ IsSome(call.arguments)
    /\ IsSome(call.name)
    /\ Find(tls, Unwrap(call.name)) # {}

\* a handle_tool_call that returns the response before the echo
HandleToolCallResultsSwapped(call, result) ==
    << NewToolCallResponse(result, Unwrap(call.id)),
       NewToolCallRequest(<<FunctionCall(Unwrap(call.id), Unwrap(call.name),
                                        Unwrap(call.arguments))>>) >>

\* handle_tool_call after the call returned Ok(result)
HandleToolCallResults(call, result) ==
    << NewToolCallRequest(<<FunctionCall(Unwrap(call.id), Unwrap(call.name),
                                        Unwrap(call.arguments))>>),
       NewToolCallResponse(result, Unwrap(call.id)) >>

\* a future of handle_tool_call; invoked is the log of its `.call(..)`s: the
\* capability (its place in the set) and the argument text it was given
Future(state, call, out) ==
    [state |-> state, call |-> call, out |-> out, invoked |-> <<>>]

\* a join that yields the results in the order of completion
JoinAllByCompletion(fs) == ConcatAll([k \in 1..Len(completed') |-> fs[completed'[k]].out])

\* try_join_all(futures).await?.into_iter().flatten().collect()
JoinAll(fs) == ConcatAll([i \in 1..Len(fs) |-> fs[i].out])

\* a join that is over as soon as one of its futures is ready
AnyReady(fs) == \E i \in 1..Len(fs) : fs[i].state = "ready"

\* try_join_all is over with Ok: every future of the batch is ready
AllReady(fs) == \A i \in 1..Len(fs) : fs[i].state = "ready"

----------------------------------------------------------------------------
\* The store (chat/db.rs)

Tags == <<"Background ", "agenda">>
\* s.to_lowercase().trim().to_string()
Normalize(t) == IF t = "Background " THEN "background" ELSE t
TagNames(ts) == [i \in 1..Len(ts) |-> Normalize(ts[i])]

\* The session, tag and session_tag tables are sequences of rows in insertion
\* order.  The schema makes session.id, tag.name and the pair
\* (session_id, tag_id) unique keys; tag.id is assigned on insertion.
EmptyTables == [session |-> <<>>, tag |-> <<>>, session_tag |-> <<>>]
SessionKeyTaken(t, id) == \E i \in 1..Len(t) : t[i].id = id
TagKeyTaken(t, name) == \E i \in 1..Len(t) : t[i].name = name
SessionTagKeyTaken(t, sid, tid) ==
    \E i \in 1..Len(t) : t[i].session_id = sid /\ t[i].tag_id = tid
NextTagId(t) == Len(t) + 1

\* INSERT INTO session (id) VALUES (?) that adds a row whatever the table holds
InsertSession(t, id) == Append(t, [id |-> id])

\* INSERT OR IGNORE INTO session (id) VALUES (?)
InsertOrIgnoreSession(t, id) ==
    IF SessionKeyTaken(t, id) THEN t ELSE Append(t, [id |-> id])
\* INSERT OR IGNORE INTO tag (name) VALUES (?)
InsertOrIgnoreTag(t, name) ==
    IF TagKeyTaken(t, name) THEN t ELSE Append(t, [id |-> NextTagId(t), name |-> name])
\* SELECT id FROM tag WHERE name = ?
SelectTagId(t, name) == t[CHOOSE i \in 1..Len(t) : t[i].name = name].id
\* INSERT OR IGNORE INTO session_tag (session_id, tag_id) VALUES (?, ?)
InsertOrIgnoreSessionTag(t, sid, tid) ==
    IF SessionTagKeyTaken(t, sid, tid) THEN t
    ELSE Append(t, [session_id |-> sid, tag_id |-> tid])

\* for tag in &tag_names: insert the tag
RECURSIVE InsertTags(_, _)
InsertTags(t, names) ==
    IF names = <<>> THEN t
    ELSE InsertTags(InsertOrIgnoreTag(t, Head(names)), Tail(names))
\* for tag in &tag_names: look its id up and link it to the session
RECURSIVE InsertSessionTags(_, _, _, _)
InsertSessionTags(st, t, sid, names) ==
    IF names = <<>> THEN st
    ELSE InsertSessionTags(
             InsertOrIgnoreSessionTag(st, sid, SelectTagId(t, Head(names))),
             t, sid, Tail(names))

\* the three tables after the transaction of get_or_create_session commits
SessionTables(T, id, ts) ==
    LET names == TagNames(ts)
        t1 == InsertTags(T.tag, names)
    IN  [session |-> InsertOrIgnoreSession(T.session, id),
         tag |-> t1,
         session_tag |-> InsertSessionTags(T.session_tag, t1, id, names)]

Row(sid, m) == [session_id |-> sid, data |-> Serialize(m)]
\* an insert that puts the new row before the older ones
InsertChatMessageFront(rows, sid, m) == <<Row(sid, m)>> \o rows

\* INSERT INTO chat_message (session_id, data) VALUES (?, ?)
InsertChatMessage(rows, sid, m) == Append(rows, Row(sid, m))

----------------------------------------------------------------------------
\* Chat::next_msg with Chat::chat / Chat::chat_stream

UserMessages == {NewMessage("user", <<"Hi">>)}
SystemMessage == NewMessage("system", <<"You are helpful">>)

\* the transcripts a Chat is built with: empty, the system prompt, or the
\* system prompt and the messages of an earlier turn of the session
InitialTranscripts ==
    { <<>>, <<SystemMessage>>,
      <<SystemMessage, NewMessage("user", <<"Hey">>), NewMessage("assistant", <<"Hello!">>)>> }

\* the rows an earlier turn has left in the store: all but the system prompt
RECURSIVE StoredRows(_)
StoredRows(t) ==
    IF t = <<>> THEN <<>>
    ELSE IF Head(t).role = "system" THEN StoredRows(Tail(t))
    ELSE <<Row("s1", Head(t))>> \o StoredRows(Tail(t))

InitChat(holder) ==
    /\ streaming \in BOOLEAN
    /\ tools \in {None, Some(ToolNames)}
    /\ db \in BOOLEAN
    /\ session_id = IF db THEN Some("s1") ELSE None
    /\ tags = IF db THEN Some(Tags) ELSE None
    /\ tx = IF streaming THEN Some("tx") ELSE None
    /\ \E t \in InitialTranscripts :
           /\ transcript = t
           /\ chat_message = IF db THEN StoredRows(t) ELSE <<>>
           /\ LET T == IF db /\ StoredRows(t) # <<>>
                       THEN SessionTables(EmptyTables, "s1", Tags) ELSE EmptyTables
              IN  /\ session = T.session
                  /\ tag = T.tag
                  /\ session_tag = T.session_tag
    /\ ChatBuilt
    /\ stream = <<>> /\ pos = 0 /\ acc = EmptyAcc /\ rx = <<>> /\ receiver = holder /\ spc = "idle"
    /\ sresult = NoResponse
    /\ chunks = <<>> /\ received = 0 /\ buffer = <<>>

\* a Chat whose sink, if it has one, is read in the scope that awaits next_msg
Init == InitChat("held")

decoderVars == <<stream, pos, acc, spc, sresult, wireVars>>
\* the locals of next_msg and of the loop it runs
locals == <<updated_history, messages, resp, futures, persisted>>

\* next_msg returns (or unwinds): its locals are gone; resp is kept as the
\* response that ended a successful loop
Return(status, cause, msgs) ==
    /\ pc' = IF status = "panic" THEN "panicked" ELSE "idle"
    /\ ret' = [status |-> status, cause |-> cause, messages |-> msgs]
    /\ updated_history' = <<>> /\ messages' = <<>>
    /\ futures' = <<>> /\ persisted' = 0

\* self.transcript.push(msg.clone()) and the locals of the loop
NextMsg ==
    /\ pc = "idle" /\ Len(transcript) <= MaxTranscript
    /\ \E m \in UserMessages :
        /\ msg' = Some(m)
        /\ transcript' = Append(transcript, m)
        /\ updated_history' = Append(transcript, m)
    /\ before' = [transcript |-> transcript, rows |-> Len(chat_message),
                  store |-> storeVars]
    /\ messages' = <<>> /\ futures' = <<>> /\ persisted' = 0
    /\ requests' = <<>> /\ batches' = <<>> /\ completed' = <<>>
    /\ transport' = "none" /\ arrived' = <<>>
    /\ resp' = NoResponse /\ ret' = NoRet
    /\ rx' = <<>>
    /\ pc' = "request"
    /\ UNCHANGED receiver
    /\ UNCHANGED <<cfgVars, serverVars, storeVars, decoderVars>>

\* a sink that hands out the items of the latest exchange first
DeliverFront(q, sent) == sent \o q

\* tx.send on the unbounded channel of the turn
Deliver(q, sent) == q \o sent

\* one exchange with the endpoint: completion / completion_stream
Exchange(o) ==
    /\ pc = "request"
    /\ o \in ModelOutcomes
    /\ requests' = Append(requests, updated_history)
    /\ rx' = Deliver(rx, o.sent)
    /\ receiver' = IF o.open THEN receiver ELSE "dropped"
    /\ completed' = <<>>
    /\ transport' = o.transport
    /\ arrived' = Append(arrived, o.stream)
    /\ UNCHANGED <<cfgVars, serverVars, storeVars, decoderVars, msg, before>>

\* a next_msg that has stored the user message when the request fails
ModelFailInputStored ==
    \E o \in ModelOutcomes :
        /\ o.status = "err"
        /\ pc = "request"
        /\ requests' = Append(requests, updated_history)
        /\ rx' = rx \o o.sent
        /\ receiver' = IF o.open THEN receiver ELSE "dropped"
        /\ completed' = <<>>
        /\ transport' = o.transport
        /\ arrived' = Append(arrived, o.stream)
        /\ chat_message' = IF db
                           THEN InsertChatMessage(chat_message, Unwrap(session_id), Unwrap(msg))
                           ELSE chat_message
        /\ Return("err", "model", <<>>)
        /\ resp' = NoResponse
        /\ UNCHANGED <<cfgVars, serverVars, session, tag, session_tag, decoderVars, msg,
                       before, transcript, batches>>

\* the request fails: `.await?`
ModelFail ==
    \E o \in ModelOutcomes :
        /\ o.status = "err"
        /\ Exchange(o)
        /\ Return("err", "model", <<>>)
        /\ resp' = NoResponse
        /\ UNCHANGED <<transcript, batches>>

\* completion_stream panics (`expect`)
ModelPanic ==
    \E o \in ModelOutcomes :
        /\ o.status = "panic"
        /\ Exchange(o)
        /\ Return("panic", "model", <<>>)
        /\ resp' = NoResponse
        /\ UNCHANGED <<transcript, batches>>

\* a loop that drops the tool calls when no capability set is configured
ModelToolCallsDropped ==
    \E o \in ModelOutcomes :
        /\ o.status = "ok" /\ HasToolCalls(o.resp)
        /\ tools = None
        /\ Exchange(o)
        /\ Return("ok", "", <<>>)
        /\ resp' = o.resp
        /\ UNCHANGED <<transcript, batches>>

\* tool calls without a capability set: `.expect(...)` panics with the
\* response at hand
ModelToolCallsNoTools ==
    \E o \in ModelOutcomes :
        /\ o.status = "ok" /\ HasToolCalls(o.resp)
        /\ tools = None
        /\ Exchange(o)
        /\ Return("panic", "no tools", <<>>)
        /\ resp' = o.resp
        /\ UNCHANGED <<transcript, batches>>

\* the outcome of the dispatcher when a request does not reach its capability
DispatchInvalid == [status |-> "err", messages |-> <<>>]

\* a request of the batch does not reach its capability: the batch fails
ModelToolCallsInvalid ==
    \E o \in ModelOutcomes :
        /\ o.status = "ok" /\ HasToolCalls(o.resp)
        /\ tools # None
        /\ Len(requests) < MaxRounds
        /\ \E i \in 1..Len(Unwrap(o.resp.tool_calls)) :
               ~Resolves(Unwrap(tools), Unwrap(o.resp.tool_calls)[i])
        /\ Exchange(o)
        /\ batches' = Append(batches, Unwrap(o.resp.tool_calls))
        /\ Return(DispatchInvalid.status, "dispatch", DispatchInvalid.messages)
        /\ resp' = NoResponse
        /\ UNCHANGED transcript

\* every request of the batch reaches its capability: the invocations run
ModelToolCalls ==
    \E o \in ModelOutcomes :
        /\ o.status = "ok" /\ HasToolCalls(o.resp)
        /\ tools # None
        /\ Len(requests) < MaxRounds
        /\ \A i \in 1..Len(Unwrap(o.resp.tool_calls)) :
               Resolves(Unwrap(tools), Unwrap(o.resp.tool_calls)[i])
        /\ Exchange(o)
        /\ resp' = o.resp
        /\ futures' = [i \in 1..Len(Unwrap(o.resp.tool_calls)) |->
                          Future("pending", Unwrap(o.resp.tool_calls)[i], <<>>)]
        /\ batches' = Append(batches, Unwrap(o.resp.tool_calls))
        /\ pc' = "dispatch"
        /\ UNCHANGED <<transcript, updated_history, messages, persisted, ret>>

\* the futures after invocation i returned Ok
Completed(fs, i) ==
    LET call == fs[i].call
        tool_call_args == Unwrap(call.arguments)
        tool == FindFirst(Unwrap(tools), Unwrap(call.name))
        tool_call_result == CallResult(Unwrap(tools)[tool], tool_call_args)
    IN  [fs EXCEPT ![i] =
            [Future("ready", call, HandleToolCallResults(call, tool_call_result))
                EXCEPT !.invoked = Append(fs[i].invoked,
                                          [tool |-> tool, args |-> tool_call_args])]]

\* a loop that pushes the results of a round to messages alone
ToolCompleteNoHistory(i) ==
    /\ pc = "dispatch"
    /\ i \in 1..Len(futures) /\ futures[i].state = "pending"
    /\ futures' = Completed(futures, i)
    /\ completed' = Append(completed, i)
    /\ IF AllReady(futures')
       THEN /\ messages' = messages \o JoinAll(futures')
            /\ pc' = "request"
            /\ UNCHANGED updated_history
       ELSE UNCHANGED <<messages, updated_history, pc>>
    /\ UNCHANGED <<cfgVars, serverVars, storeVars, streamVars, transcript, msg, resp,
                   persisted, ret, before, requests, batches, transport,
                   arrived>>

\* a capability invocation returns Ok; the last one ends try_join_all and
\* the results are pushed to messages and updated_history
ToolComplete(i) ==
    /\ pc = "dispatch"
    /\ i \in 1..Len(futures) /\ futures[i].state = "pending"
    /\ futures' = Completed(futures, i)
    /\ completed' = Append(completed, i)
    /\ IF AllReady(futures')
       THEN /\ messages' = messages \o JoinAll(futures')
            /\ updated_history' = updated_history \o JoinAll(futures')
            /\ pc' = "request"
       ELSE UNCHANGED <<messages, updated_history, pc>>
    /\ UNCHANGED <<cfgVars, serverVars, storeVars, streamVars, transcript, msg, resp,
                   persisted, ret, before, requests, batches, transport,
                   arrived>>

\* a join that hands back what had completed when an invocation failed
TryJoinPartial(fs) ==
    [status |-> "err",
     messages |-> ConcatAll([i \in 1..Len(fs) |-> fs[i].out])]

\* the outcome of try_join_all once an invocation has failed
TryJoinErr(fs) == [status |-> "err", messages |-> <<>>]

\* a capability invocation returns Err: try_join_all returns it at once
ToolFail(i) ==
    /\ pc = "dispatch"
    /\ i \in 1..Len(futures) /\ futures[i].state = "pending"
    /\ completed' = Append(completed, i)
    /\ Return(TryJoinErr(futures).status, "tool", TryJoinErr(futures).messages)
    /\ resp' = NoResponse
    /\ UNCHANGED <<cfgVars, serverVars, storeVars, streamVars, transcript, msg, before,
                   requests, batches, transport, arrived>>

\* a fold that puts the new messages before the transcript
FoldFront(t, msgs) == msgs \o t

\* for m in messages.iter() { self.transcript.push(m.clone()) }
Fold(t, msgs) == t \o msgs

\* a final message pushed with the wrong role
FinalMessagesAsUser(msgs, content) == Append(msgs, NewMessage("user", content))

\* the final Assistant message of Chat::chat / Chat::chat_stream
FinalMessages(msgs, content) == Append(msgs, NewMessage("assistant", content))

\* the final response carries content: Message::new(Role::Assistant, msg)
ModelContent ==
    \E o \in ModelOutcomes :
        /\ o.status = "ok" /\ ~HasToolCalls(o.resp) /\ IsSome(o.resp.content)
        /\ Exchange(o)
        /\ resp' = o.resp
        /\ IF db
           THEN /\ pc' = "get_or_create_session"
                /\ messages' = FinalMessages(messages, Unwrap(o.resp.content))
                /\ UNCHANGED <<transcript, ret, updated_history, futures, persisted>>
           ELSE /\ transcript' = Fold(transcript, FinalMessages(messages, Unwrap(o.resp.content)))
                /\ Return("ok", "", FinalMessages(messages, Unwrap(o.resp.content)))
        /\ UNCHANGED batches

\* neither content nor tool calls: panic! in chat, bail! in chat_stream
ModelNoContent ==
    \E o \in ModelOutcomes :
        /\ o.status = "ok" /\ ~HasToolCalls(o.resp) /\ ~IsSome(o.resp.content)
        /\ Exchange(o)
        /\ Return(IF streaming THEN "err" ELSE "panic", "no content", <<>>)
        /\ resp' = NoResponse
        /\ UNCHANGED <<transcript, batches>>

turnVars == <<cfgVars, serverVars, streamVars, msg, histVars>>

\* get_or_create_session(db, session_id, tags).await succeeds
GetOrCreateSession ==
    /\ pc = "get_or_create_session"
    /\ LET T == SessionTables([session |-> session, tag |-> tag,
                                session_tag |-> session_tag],
                               Unwrap(session_id), Unwrap(tags))
       IN  /\ session' = T.session
           /\ tag' = T.tag
           /\ session_tag' = T.session_tag
    /\ pc' = "insert_input"
    /\ UNCHANGED <<turnVars, locals, transcript, chat_message, ret>>

\* insert_chat_message(db, session_id, &msg).await succeeds; the loop over
\* messages pushes its first message to the transcript
InsertInput ==
    /\ pc = "insert_input"
    /\ chat_message' = InsertChatMessage(chat_message, Unwrap(session_id), Unwrap(msg))
    /\ transcript' = Append(transcript, messages[1])
    /\ pc' = "insert_message"
    /\ UNCHANGED <<turnVars, locals, session, tag, session_tag, ret>>

\* insert_chat_message(db, session_id, m).await succeeds; next iteration
InsertMessage ==
    /\ pc = "insert_message"
    /\ chat_message' = InsertChatMessage(chat_message, Unwrap(session_id),
                                         messages[persisted + 1])
    /\ IF persisted + 1 < Len(messages)
       THEN /\ transcript' = Append(transcript, messages[persisted + 2])
            /\ persisted' = persisted + 1
            /\ UNCHANGED <<pc, ret, updated_history, messages, futures>>
       ELSE /\ Return("ok", "", messages)
            /\ UNCHANGED transcript
    /\ UNCHANGED <<turnVars, resp, session, tag, session_tag>>

\* a call of the store fails: `.await?`
StoreFail ==
    /\ pc \in {"get_or_create_session", "insert_input", "insert_message"}
    /\ Return("err", "store", <<>>)
    /\ resp' = NoResponse
    /\ UNCHANGED <<turnVars, storeVars, transcript>>

\* the client of the sink drops its receiver while the turn runs
ConsumerDisconnect ==
    /\ IsSome(tx) /\ receiver = "client"
    /\ pc \in {"request", "dispatch", "get_or_create_session", "insert_input",
               "insert_message"}
    /\ receiver' = "dropped"
    /\ UNCHANGED <<chatVars, decoderVars, rx>>

Next ==
    \/ NextMsg
    \/ ModelFail \/ ModelPanic \/ ModelToolCallsNoTools \/ ModelToolCallsInvalid
    \/ ModelToolCalls \/ ModelContent \/ ModelNoContent
    \/ \E i \in DOMAIN futures : ToolComplete(i)
    \/ \E i \in DOMAIN futures : ToolFail(i)
    \/ GetOrCreateSession \/ InsertInput \/ InsertMessage \/ StoreFail

Spec == Init /\ [][Next]_vars

\* every await of a turn that is under way returns: the model request, each
\* capability invocation and each call of the store
LoopStep ==
    \/ ModelFail \/ ModelPanic \/ ModelToolCallsNoTools \/ ModelToolCallsInvalid
    \/ ModelToolCalls \/ ModelContent \/ ModelNoContent
    \/ \E i \in DOMAIN futures : ToolComplete(i)
    \/ \E i \in DOMAIN futures : ToolFail(i)
    \/ GetOrCreateSession \/ InsertInput \/ InsertMessage \/ StoreFail
SpecLive == Init /\ [][Next]_vars /\ WF_vars(LoopStep)

\* streaming turns whose sink is read by a client that may go away
InitSink == InitChat("client") /\ streaming
\* completion_stream returns content or tool calls, so the steps of a
\* streaming turn are those of Next but ModelNoContent
NextSink ==
    \/ NextMsg
    \/ ConsumerDisconnect
    \/ ModelFail \/ ModelPanic \/ ModelToolCallsNoTools \/ ModelToolCallsInvalid
    \/ ModelToolCalls \/ ModelContent
    \/ \E i \in DOMAIN futures : ToolComplete(i)
    \/ \E i \in DOMAIN futures : ToolFail(i)
    \/ GetOrCreateSession \/ InsertInput \/ InsertMessage \/ StoreFail
SpecSink == InitSink /\ [][NextSink]_vars

----------------------------------------------------------------------------
\* ChatBuilder (ai/chat/core.rs)

\* everything but the fields of the builder
builtVars == <<streamVars, storeVars, histVars, serverVars, pc, msg, updated_history,
               messages, resp, futures, persisted, ret>>

\* ChatBuilder::new
InitBuilder ==
    /\ streaming = FALSE /\ tx = None /\ tools = None
    /\ db = FALSE /\ session_id = None /\ tags = None
    /\ transcript = <<>>
    /\ session = <<>> /\ tag = <<>> /\ session_tag = <<>> /\ chat_message = <<>>
    /\ pc = "builder" /\ msg = None
    /\ updated_history = <<>> /\ messages = <<>> /\ resp = NoResponse
    /\ futures = <<>> /\ persisted = 0 /\ ret = NoRet
    /\ before = [transcript |-> <<>>, rows |-> 0, store |-> storeVars]
    /\ requests = <<>> /\ batches = <<>> /\ completed = <<>>
    /\ transport = "none" /\ arrived = <<>>
    /\ loops = NoLoops /\ handlers = NoHandlers
    /\ stream = <<>> /\ pos = 0 /\ acc = EmptyAcc /\ rx = <<>> /\ receiver = "held" /\ spc = "idle"
    /\ sresult = NoResponse
    /\ chunks = <<>> /\ received = 0 /\ buffer = <<>>

\* the session id of database(): the one given or a fresh Uuid
DatabaseSessionId(sid) == IF IsSome(sid) THEN sid ELSE Some("uuid")

\* a database() that stores the tags as they are given
DatabaseTagsAsGiven(t) == t

\* the tags of database(): the ones given or an empty list
DatabaseTags(t) == IF IsSome(t) THEN t ELSE Some(<<>>)

\* ChatBuilder::database
Database ==
    /\ pc = "builder"
    /\ \E sid \in {None, Some("s1")}, t \in {None, Some(Tags)} :
           /\ session_id' = DatabaseSessionId(sid)
           /\ tags' = DatabaseTags(t)
    /\ db' = TRUE
    /\ UNCHANGED <<streaming, tx, tools, transcript, builtVars>>

\* ChatBuilder::transcript
SetTranscript ==
    /\ pc = "builder"
    /\ \E t \in InitialTranscripts : transcript' = t
    /\ UNCHANGED <<streaming, tx, tools, db, session_id, tags, builtVars>>

\* ChatBuilder::streaming
Streaming ==
    /\ pc = "builder"
    /\ streaming' = TRUE
    /\ \E t \in {"tx", "tx2"} : tx' = Some(t)
    /\ UNCHANGED <<tools, db, session_id, tags, transcript, builtVars>>

\* ChatBuilder::tools
SetTools ==
    /\ pc = "builder"
    /\ \E l \in {ToolNames, <<"mock_tool">>} : tools' = Some(l)
    /\ UNCHANGED <<streaming, tx, db, session_id, tags, transcript, builtVars>>

\* ChatBuilder::build
Build ==
    /\ pc = "builder"
    /\ pc' = "idle"
    /\ before' = [before EXCEPT !.transcript = transcript]
    /\ UNCHANGED <<cfgVars, serverVars, transcript, streamVars, storeVars, requests, batches,
                   completed, transport, arrived, msg, updated_history,
                   messages, resp, futures, persisted, ret>>

NextBuilder == Database \/ SetTranscript \/ Streaming \/ SetTools \/ Build

SpecBuilder == InitBuilder /\ [][NextBuilder]_vars

----------------------------------------------------------------------------
\* get_or_create_session called for several sessions on one store

SessionIds == {"s1", "s2"}
TagLists == {<<>>, Tags, <<"background">>, <<"agenda", "agenda">>, <<"notes">>}
Tables == [session |-> session, tag |-> tag, session_tag |-> session_tag]

InitSessions ==
    /\ streaming = FALSE /\ tx = None /\ tools = None
    /\ db = TRUE /\ session_id = None /\ tags = None
    /\ transcript = <<>>
    /\ session = <<>> /\ tag = <<>> /\ session_tag = <<>> /\ chat_message = <<>>
    /\ pc = "sessions" /\ msg = None
    /\ updated_history = <<>> /\ messages = <<>> /\ resp = NoResponse
    /\ futures = <<>> /\ persisted = 0 /\ ret = NoRet
    /\ before = [transcript |-> <<>>, rows |-> 0, store |-> storeVars]
    /\ requests = <<>> /\ batches = <<>> /\ completed = <<>>
    /\ transport = "none" /\ arrived = <<>>
    /\ loops = NoLoops /\ handlers = NoHandlers
    /\ stream = <<>> /\ pos = 0 /\ acc = EmptyAcc /\ rx = <<>> /\ receiver = "held" /\ spc = "idle"
    /\ sresult = NoResponse
    /\ chunks = <<>> /\ received = 0 /\ buffer = <<>>

sessionCallVars == <<streamVars, histVars, serverVars, streaming, tools, db, tx, transcript,
                     chat_message, pc, msg, updated_history, messages, resp,
                     futures, persisted, ret>>

\* get_or_create_session(db, id, ts): the transaction commits
EnsureSession ==
    /\ pc = "sessions"
    /\ \E id \in SessionIds, ts \in TagLists :
           LET T == SessionTables(Tables, id, ts)
           IN  /\ session_id' = Some(id) /\ tags' = Some(ts)
               /\ session' = T.session
               /\ tag' = T.tag
               /\ session_tag' = T.session_tag
    /\ UNCHANGED sessionCallVars

\* get_or_create_session(db, id, ts): a statement fails, the transaction is
\* rolled back
EnsureSessionFail ==
    /\ pc = "sessions"
    /\ \E id \in SessionIds, ts \in TagLists :
           session_id' = Some(id) /\ tags' = Some(ts)
    /\ UNCHANGED <<session, tag, session_tag, sessionCallVars>>

NextSessions == EnsureSession \/ EnsureSessionFail

SpecSessions == InitSessions /\ [][NextSessions]_vars

----------------------------------------------------------------------------
\* The loops of openai/chat.rs (chat, chat_stream) and of Chat (Chat::chat,
\* Chat::chat_stream) as functions of the capability set, the history, the
\* script (what the endpoint does on the first, the second, ... request) and
\* the place in a batch of the invocation that fails (0: none fails)

\* no Chat is at work: its fields, its locals and the decoder are at rest
NoChat(p) ==
    /\ streaming = FALSE /\ tx = None /\ tools = None
    /\ db = FALSE /\ session_id = None /\ tags = None
    /\ transcript = <<>>
    /\ pc = p /\ msg = None
    /\ updated_history = <<>> /\ messages = <<>> /\ resp = NoResponse
    /\ futures = <<>> /\ persisted = 0 /\ ret = NoRet
    /\ before = [transcript |-> <<>>, rows |-> 0, store |-> storeVars]
    /\ requests = <<>> /\ batches = <<>> /\ completed = <<>>
    /\ transport = "none" /\ arrived = <<>>
    /\ stream = <<>> /\ pos = 0 /\ acc = EmptyAcc /\ rx = <<>> /\ receiver = "held"
    /\ spc = "idle" /\ sresult = NoResponse
    /\ chunks = <<>> /\ received = 0 /\ buffer = <<>>

\* handle_tool_calls (the same text in openai/chat.rs and ai/chat/core.rs):
\* Err when a request does not reach its capability or an invocation fails,
\* else the pairs of all requests in request order
HandleToolCalls(tls, tool_calls, failing) ==
    IF \E i \in 1..Len(tool_calls) : ~Resolves(tls, tool_calls[i]) \/ i = failing
    THEN [status |-> "err", messages |-> <<>>]
    ELSE [status |-> "ok",
          messages |-> ConcatAll([i \in 1..Len(tool_calls) |->
              HandleToolCallResults(tool_calls[i],
                  CallResult(tls[FindFirst(tls, Unwrap(tool_calls[i].name))],
                             Unwrap(tool_calls[i].arguments)))])]

\* let mut updated_history = history.to_owned(); let mut messages = Vec::new();
\* the first request carries the history; k is the number of the response
LoopStart(history) ==
    [updated_history |-> history, messages |-> <<>>, requests |-> <<history>>,
     k |-> 1]

\* the pairs of a round are pushed to messages and updated_history, and the
\* next request carries updated_history
NextRound(l, tool_call_msgs) ==
    [l EXCEPT !.messages = @ \o tool_call_msgs,
              !.updated_history = @ \o tool_call_msgs,
              !.requests = Append(@, l.updated_history \o tool_call_msgs),
              !.k = @ + 1]

\* what a loop leaves behind: Ok(messages), Err or a panic, the histories
\* it sent and what its exchanges passed to the sink
LoopOut(status, msgs, l, script) ==
    [status |-> status, messages |-> msgs, requests |-> l.requests,
     sent |-> ConcatAll([j \in 1..l.k |-> script[j].sent])]

\* Message::new(Role::Assistant, msg) pushed to messages
WithFinal(l, r) == Append(l.messages, NewMessage("assistant", Unwrap(r.content)))

\* openai::chat: the `while let` with the response of request l.k at hand;
\* tools_ref was taken before the loop
RECURSIVE chat_while(_, _, _, _)
chat_while(tools_ref, l, script, failing) ==
    LET r == script[l.k].resp
    IN  IF HasToolCalls(r)
        THEN LET d == HandleToolCalls(tools_ref, Unwrap(r.tool_calls), failing)
                 n == NextRound(l, d.messages)
             IN  IF d.status # "ok" THEN LoopOut("err", <<>>, l, script)
                 ELSE IF script[n.k].status # "ok"
                 THEN LoopOut(script[n.k].status, <<>>, n, script)
                 ELSE chat_while(tools_ref, n, script, failing)
        ELSE IF IsSome(r.content) THEN LoopOut("ok", WithFinal(l, r), l, script)
        ELSE LoopOut("panic", <<>>, l, script)

\* openai::chat: completion(..).await?, then tools.as_ref().expect(..), then
\* the loop
chat(tools_opt, history, script, failing) ==
    LET l == LoopStart(history)
    IN  IF script[1].status # "ok" THEN LoopOut(script[1].status, <<>>, l, script)
        ELSE IF tools_opt = None THEN LoopOut("panic", <<>>, l, script)
        ELSE chat_while(Unwrap(tools_opt), l, script, failing)

\* openai::chat_stream: the `while let`; tools_ref is taken inside the loop
RECURSIVE chat_stream_while(_, _, _, _)
chat_stream_while(tools_opt, l, script, failing) ==
    LET r == script[l.k].resp
    IN  IF HasToolCalls(r)
        THEN IF tools_opt = None THEN LoopOut("panic", <<>>, l, script)
             ELSE LET d == HandleToolCalls(Unwrap(tools_opt), Unwrap(r.tool_calls), failing)
                      n == NextRound(l, d.messages)
                  IN  IF d.status # "ok" THEN LoopOut("err", <<>>, l, script)
                      ELSE IF script[n.k].status # "ok"
                      THEN LoopOut(script[n.k].status, <<>>, n, script)
                      ELSE chat_stream_while(tools_opt, n, script, failing)
        ELSE IF IsSome(r.content) THEN LoopOut("ok", WithFinal(l, r), l, script)
        ELSE LoopOut("err", <<>>, l, script)

\* openai::chat_stream
chat_stream(tools_opt, history, script, failing) ==
    LET l == LoopStart(history)
    IN  IF script[1].status # "ok" THEN LoopOut(script[1].status, <<>>, l, script)
        ELSE chat_stream_while(tools_opt, l, script, failing)

\* Chat::chat: the `while let`; tools_ref is taken inside the loop and the
\* missing content is a panic!
RECURSIVE Chat_chat_while(_, _, _, _)
Chat_chat_while(tools_opt, l, script, failing) ==
    LET r == script[l.k].resp
    IN  IF HasToolCalls(r)
        THEN IF tools_opt = None THEN LoopOut("panic", <<>>, l, script)
             ELSE LET d == HandleToolCalls(Unwrap(tools_opt), Unwrap(r.tool_calls), failing)
                      n == NextRound(l, d.messages)
                  IN  IF d.status # "ok" THEN LoopOut("err", <<>>, l, script)
                      ELSE IF script[n.k].status # "ok"
                      THEN LoopOut(script[n.k].status, <<>>, n, script)
                      ELSE Chat_chat_while(tools_opt, n, script, failing)
        ELSE IF IsSome(r.content) THEN LoopOut("ok", WithFinal(l, r), l, script)
        ELSE LoopOut("panic", <<>>, l, script)

\* Chat::chat on transcript.messages()
Chat_chat(tools_opt, history, script, failing) ==
    LET l == LoopStart(history)
    IN  IF script[1].status # "ok" THEN LoopOut(script[1].status, <<>>, l, script)
        ELSE Chat_chat_while(tools_opt, l, script, failing)

\* Chat::chat_stream: the `while let`; the missing content is a bail!
RECURSIVE Chat_chat_stream_while(_, _, _, _)
Chat_chat_stream_while(tools_opt, l, script, failing) ==
    LET r == script[l.k].resp
    IN  IF HasToolCalls(r)
        THEN IF tools_opt = None THEN LoopOut("panic", <<>>, l, script)
             ELSE LET d == HandleToolCalls(Unwrap(tools_opt), Unwrap(r.tool_calls), failing)
                      n == NextRound(l, d.messages)
                  IN  IF d.status # "ok" THEN LoopOut("err", <<>>, l, script)
                      ELSE IF script[n.k].status # "ok"
                      THEN LoopOut(script[n.k].status, <<>>, n, script)
                      ELSE Chat_chat_stream_while(tools_opt, n, script, failing)
        ELSE IF IsSome(r.content) THEN LoopOut("ok", WithFinal(l, r), l, script)
        ELSE LoopOut("err", <<>>, l, script)

\* Chat::chat_stream on transcript.messages()
Chat_chat_stream(tools_opt, history, script, failing) ==
    LET l == LoopStart(history)
    IN  IF script[1].status # "ok" THEN LoopOut(script[1].status, <<>>, l, script)
        ELSE Chat_chat_stream_while(tools_opt, l, script, failing)

\* ---- the inputs the loops are run on ----
\* what the endpoint does on one request: completion returns, or
\* completion_stream does, with the receiver of the sink held
AsksForTools(o) == o.status = "ok" /\ HasToolCalls(o.resp)
LoopOutcomes(mode) ==
    IF mode = "stream" THEN StreamOutcomes
    ELSE {o \in BufferedOutcomes : AsksForTools(o) => o.resp.content = None}

\* at most MaxRounds responses that ask for tools, then one that does not
Scripts(mode) ==
    UNION {{t \o <<f>> : t \in [1..j -> {o \in LoopOutcomes(mode) : AsksForTools(o)}],
                         f \in {o \in LoopOutcomes(mode) : ~AsksForTools(o)}} :
           j \in 0..MaxRounds}

NoOut == <<>>

InitLoops ==
    /\ session = <<>> /\ tag = <<>> /\ session_tag = <<>> /\ chat_message = <<>>
    /\ NoChat("loops")
    /\ handlers = NoHandlers
    /\ \E mode \in {"buffered", "stream"} :
           loops \in [mode : {mode}, tools : {None, Some(ToolNames)},
                      history : {<<SystemMessage, NewMessage("user", <<"Hi">>)>>},
                      script : Scripts(mode), failing : 0..MaxCalls,
                      free : {NoOut}, method : {NoOut}]

loopCallVars == <<streamVars, cfgVars, storeVars, histVars, handlers, transcript,
                  pc, msg, updated_history, messages, resp, futures, persisted,
                  ret>>

\* the free function of the mode is called on the input
RunFree ==
    /\ pc = "loops" /\ loops.free = NoOut
    /\ loops' = [loops EXCEPT !.free =
           IF loops.mode = "stream"
           THEN chat_stream(loops.tools, loops.history, loops.script, loops.failing)
           ELSE chat(loops.tools, loops.history, loops.script, loops.failing)]
    /\ UNCHANGED loopCallVars

\* the method of Chat of the mode is called on the input
RunMethod ==
    /\ pc = "loops" /\ loops.method = NoOut
    /\ loops' = [loops EXCEPT !.method =
           IF loops.mode = "stream"
           THEN Chat_chat_stream(loops.tools, loops.history, loops.script, loops.failing)
           ELSE Chat_chat(loops.tools, loops.history, loops.script, loops.failing)]
    /\ UNCHANGED loopCallVars

NextLoops == RunFree \/ RunMethod

SpecLoops == InitLoops /\ [][NextLoops]_vars

----------------------------------------------------------------------------
\* chat_handler (api/routes/chat/router.rs): every request runs the handler
\* up to the spawn and then the spawned task; the requests share the store.
\* handlers[r] holds the locals of request r in the order of arrival.

HandlerSessions == {"s1", "s2"}
\* the capability set of chat_handler (two capabilities stand for the seven)
HandlerTools == ToolNames
\* Message::new(Role::User, &payload.message) of the r-th request
UserMsg(r) == NewMessage("user", <<"Hi", r>>)

\* serde_json::from_str::<Message>(&val): a key that is not there is None
Deserialize(d) ==
    [role |-> d.role,
     content |-> IF "content" \in DOMAIN d THEN Some(d.content) ELSE None,
     tool_call_id |-> IF "tool_call_id" \in DOMAIN d THEN Some(d.tool_call_id) ELSE None,
     tool_calls |-> IF "tool_calls" \in DOMAIN d THEN Some(d.tool_calls) ELSE None]

\* SELECT data FROM chat_message WHERE session_id=?, read in stored order
RECURSIVE FindChatSessionById(_, _)
FindChatSessionById(rows, sid) ==
    IF rows = <<>> THEN <<>>
    ELSE IF Head(rows).session_id = sid
    THEN <<Deserialize(Head(rows).data)>> \o FindChatSessionById(Tail(rows), sid)
    ELSE FindChatSessionById(Tail(rows), sid)

\* `if transcript.is_empty() { transcript.push(default_system_msg) }`, then
\* transcript.push(user_msg)
NewTranscript(found, user_msg) ==
    (IF found = <<>> THEN <<SystemMessage>> ELSE found) \o <<user_msg>>

\* the completion chunk of the Err arm: id "error", finish_reason "error",
\* delta.content "Something went wrong: {e}"
ErrorChunk ==
    [prefix |-> "",
     data |-> Frame("error",
                    [NoDelta EXCEPT !.content = Some(<<"Something went wrong: ", "e">>)],
                    TRUE)]

\* what the endpoint does during one chat_stream of the handler
FoundIt == <<ContentFrame(<<"Found it">>, FALSE), DoneFrame>>
HandlerScripts ==
    {<<o>> : o \in CompletionStream(FoundIt)
                   \cup CompletionStream(<<ContentFrame(<<"Hello">>, FALSE), MalformedFrame>>)
                   \cup {WireOutcome("connect", "err", NoResponse),
                         WireOutcome("body", "panic", NoResponse)}}
    \cup {<<t, f>> : t \in CompletionStream(<<ToolCallFrame(<<Call0>>, FALSE),
                                               ToolCallFrame(<<ArgsSub(0, <<"test}">>)>>, FALSE),
                                               DoneFrame>>),
                     f \in CompletionStream(FoundIt)}

\* the locals of a request that has just arrived; rows and seen are history:
\* the places of the rows the task has stored and the number of rows the
\* store held when the task read the session
NewHandler(sid, r) ==
    [pc |-> "get_or_create_session", session_id |-> sid, user_msg |-> UserMsg(r),
     transcript |-> <<>>, result |-> NoOut, stored |-> 0,
     sent |-> <<>>, rx |-> <<>>, rows |-> <<>>, seen |-> 0]

InitHandler ==
    /\ session = <<>> /\ tag = <<>> /\ session_tag = <<>> /\ chat_message = <<>>
    /\ NoChat("handler")
    /\ loops = NoLoops
    /\ handlers = NoHandlers

handlerCallVars == <<streamVars, cfgVars, histVars, loops, transcript, pc, msg,
                     updated_history, messages, resp, futures, persisted, ret,
                     tag, session_tag>>

\* a request reaches chat_handler
HandlerRequest ==
    /\ pc = "handler" /\ Len(handlers) < MaxRequests
    /\ \E sid \in HandlerSessions :
           handlers' = Append(handlers, NewHandler(sid, Len(handlers) + 1))
    /\ UNCHANGED <<session, chat_message, handlerCallVars>>

\* get_or_create_session(&db, &session_id, &[]).await?
HandlerGetOrCreateSession(r) ==
    /\ handlers[r].pc = "get_or_create_session"
    /\ session' = SessionTables(Tables, handlers[r].session_id, <<>>).session
    /\ handlers' = [handlers EXCEPT ![r].pc = "find_chat_session_by_id"]
    /\ UNCHANGED <<chat_message, handlerCallVars>>

\* find_chat_session_by_id(&db, &session_id).await?, the transcript is
\* completed and the task is spawned
HandlerFindChatSession(r) ==
    /\ handlers[r].pc = "find_chat_session_by_id"
    /\ handlers' = [handlers EXCEPT
           ![r].transcript = NewTranscript(
                FindChatSessionById(chat_message, handlers[r].session_id),
                handlers[r].user_msg),
           ![r].seen = Len(chat_message),
           ![r].pc = "chat_stream"]
    /\ UNCHANGED <<session, chat_message, handlerCallVars>>

\* a call of the store fails: before the spawn the handler answers with an
\* ApiError, in the task `?` ends the task
HandlerStoreFail(r) ==
    /\ handlers[r].pc \in {"get_or_create_session", "find_chat_session_by_id",
                           "insert_user", "insert_message"}
    /\ handlers' = [handlers EXCEPT ![r].pc = "failed"]
    /\ UNCHANGED <<session, chat_message, handlerCallVars>>

\* the task awaits chat_stream(tx.clone(), &tools, &transcript, ..) and
\* matches the result: Ok leads to the inserts, Err sends the error chunk,
\* a panic ends the task.  The client may drop the receiver at any time: n
\* of the sends reach it
HandlerChatStream(r) ==
    /\ handlers[r].pc = "chat_stream"
    /\ \E script \in HandlerScripts, failing \in 0..1 :
           LET result == chat_stream(Some(HandlerTools), handlers[r].transcript,
                                     script, failing)
               sends == IF result.status = "err"
                        THEN Append(result.sent, ErrorChunk) ELSE result.sent
           IN  \E n \in 0..Len(sends) :
                   handlers' = [handlers EXCEPT
                       ![r].result = result,
                       ![r].sent = sends,
                       ![r].rx = SubSeq(sends, 1, n),
                       ![r].pc = CASE result.status = "ok" -> "insert_user"
                                   [] result.status = "err" -> "done"
                                   [] OTHER -> "panicked"]
    /\ UNCHANGED <<session, chat_message, handlerCallVars>>

\* insert_chat_message(&db, &session_id, &user_msg).await?
HandlerInsertUser(r) ==
    /\ handlers[r].pc = "insert_user"
    /\ chat_message' = InsertChatMessage(chat_message, handlers[r].session_id,
                                         handlers[r].user_msg)
    /\ handlers' = [handlers EXCEPT
           ![r].rows = Append(@, Len(chat_message) + 1),
           ![r].pc = "insert_message"]
    /\ UNCHANGED <<session, handlerCallVars>>

\* for m in messages { insert_chat_message(&db, &session_id, &m).await? }:
\* one iteration
HandlerInsertMessage(r) ==
    /\ handlers[r].pc = "insert_message"
    /\ chat_message' = InsertChatMessage(chat_message, handlers[r].session_id,
                            handlers[r].result.messages[handlers[r].stored + 1])
    /\ handlers' = [handlers EXCEPT
           ![r].rows = Append(@, Len(chat_message) + 1),
           ![r].stored = @ + 1,
           ![r].pc = IF handlers[r].stored + 1 = Len(handlers[r].result.messages)
                     THEN "done" ELSE "insert_message"]
    /\ UNCHANGED <<session, handlerCallVars>>

NextHandler ==
    \/ HandlerRequest
    \/ \E r \in DOMAIN handlers : HandlerGetOrCreateSession(r)
    \/ \E r \in DOMAIN handlers : HandlerFindChatSession(r)
    \/ \E r \in DOMAIN handlers : HandlerStoreFail(r)
    \/ \E r \in DOMAIN handlers : HandlerChatStream(r)
    \/ \E r \in DOMAIN handlers : HandlerInsertUser(r)
    \/ \E r \in DOMAIN handlers : HandlerInsertMessage(r)

SpecHandler == InitHandler /\ [][NextHandler]_vars

\* C19: while it is built and once it is built, a Chat has the persistence
\* handle, the session id and the tag set all present or all absent, and
\* the streaming flag set exactly when it has a sink
C19_BuilderOptionGroups ==
    /\ db <=> IsSome(session_id)
    /\ db <=> IsSome(tags)
    /\ streaming <=> IsSome(tx)

\* C19 witness: database(db, None, None) and streaming(tx), then build
C19_Witness ==
    /\ pc = "idle"
    /\ db /\ session_id = Some("uuid") /\ tags = Some(<<>>)
    /\ streaming /\ IsSome(tx)

----------------------------------------------------------------------------
\* Properties of completion_stream (SpecStream)

IsContentFrame(f) == f.kind = "chunk" /\ IsSome(f.delta.content)

\* the frames handled are those of a stream of content-delta frames (some
\* of them possibly Stop or finish_reason frames) and [DONE], up to the
\* frame that ended the exchange
IsContentStream(s) ==
    /\ Len(s) >= 1
    /\ Terminates(s[Len(s)])
    /\ \A i \in 1..Len(s) :
           \/ IsContentFrame(s[i])
           \/ s[i].kind = "chunk" /\ Delta(s[i].delta).kind = "Stop"
           \/ s[i] = DoneFrame

FirstTerminating(s) ==
    CHOOSE i \in 1..Len(s) : Terminates(s[i]) /\ \A j \in 1..(i - 1) : ~Terminates(s[j])

TextBeforeTermination(s) ==
    ConcatAll([i \in 1..(FirstTerminating(s) - 1) |-> Unwrap(s[i].delta.content)])

\* C4: for content-delta frames terminated by [DONE], the returned content is
\* the concatenation, in arrival order, of the text of the frames that
\* precede termination; Stop and finish_reason frames contribute nothing
C4_ContentIsConcatenation ==
    (spc = "ok" /\ IsContentStream(stream)) =>
        sresult = Response(Some(TextBeforeTermination(stream)), None)

\* C4 witness: "Hello", " World", "!" with finish_reason gives "Hello World"
\* (the exchange ends at the third frame, before [DONE] is extracted)
C4_Witness ==
    /\ spc = "ok"
    /\ stream = <<ContentFrame(<<"Hello">>, FALSE), ContentFrame(<<" World">>, FALSE),
                  ContentFrame(<<"!">>, TRUE)>>
    /\ sresult.content = Some(<<"Hello", " World">>)

\* the tool-call sub-deltas accumulated from the first p frames, in arrival
\* order (the frames of a finish_reason or Stop delta accumulate nothing)
AccumulatedSubs(s, p) ==
    ConcatAll([j \in 1..p |->
        IF s[j].kind = "chunk" /\ ~s[j].finish /\ Delta(s[j].delta).kind = "ToolCall"
        THEN Delta(s[j].delta).subs ELSE <<>>])

InitPositions(subs, i) ==
    {k \in 1..Len(subs) : subs[k].kind = "Init" /\ subs[k].index = i}

\* the ArgsDelta fragments for index i after position p, concatenated
ArgsAfter(subs, i, p) ==
    ConcatAll([k \in 1..Len(subs) |->
        IF k > p /\ subs[k].kind = "ArgsDelta" /\ subs[k].index = i
        THEN subs[k].arguments ELSE <<>>])

Max(S) == CHOOSE x \in S : \A y \in S : y <= x

\* C5 as stated: for every index with an entry, the accumulated arguments
\* are the fragment of an Init for it followed by all ArgsDelta fragments
\* for it in arrival order
C5_InitThenAllArgsDeltas ==
    spc = "ok" =>
        LET subs == AccumulatedSubs(stream, pos)
        IN  \A i \in DOMAIN acc.tool_calls :
                \E k \in InitPositions(subs, i) :
                    acc.tool_calls[i].arguments =
                        subs[k].arguments \o ArgsAfter(subs, i, 0)

\* C5 amended: for every index i the accumulated arguments at termination are
\* the fragment of the last Init for i followed by the ArgsDelta fragments
\* for i that arrive after that Init, in arrival order, whatever the
\* sub-deltas of other indices; an entry exists exactly for the indices that
\* had an Init
C5_LastInitThenLaterArgsDeltas ==
    spc = "ok" =>
        LET subs == AccumulatedSubs(stream, pos)
        IN  /\ DOMAIN acc.tool_calls = {i \in Indices : InitPositions(subs, i) # {}}
            /\ \A i \in DOMAIN acc.tool_calls :
                   LET k == Max(InitPositions(subs, i))
                   IN  acc.tool_calls[i].arguments =
                           subs[k].arguments \o ArgsAfter(subs, i, k)

\* C5 witness: two calls whose fragments interleave within a frame and
\* across frames
C5_Witness ==
    /\ spc = "ok"
    /\ stream = <<ToolCallFrame(<<Call0, Call1>>, FALSE),
                  ToolCallFrame(<<ArgsSub(1, <<"x}">>), ArgsSub(0, <<"y">>)>>, FALSE),
                  ToolCallFrame(<<ArgsSub(0, <<"test}">>)>>, FALSE), DoneFrame>>
    /\ acc.tool_calls[0].arguments = <<"{q:", "y", "test}">>
    /\ acc.tool_calls[1].arguments = <<"{r:", "x}">>

\* C6: the tool_calls list of the returned value is ordered by ascending
\* position index
C6_ToolCallsAscending ==
    (spc = "ok" /\ IsSome(sresult.tool_calls)) =>
        LET calls == Unwrap(sresult.tool_calls)
        IN  \A i, j \in 1..Len(calls) :
                i < j => Unwrap(calls[i].index) < Unwrap(calls[j].index)

\* the delta of the frame carries a tool_calls payload that is no list of
\* Init / ArgsDelta sub-deltas
DeltaUnparsed(f) ==
    /\ f.kind = "chunk"
    /\ f.delta.content = None /\ f.delta.reasoning = None
    /\ IsSome(f.delta.tool_calls)
    /\ \E i \in 1..Len(Unwrap(f.delta.tool_calls)) :
           ToolCallChunk(Unwrap(f.delta.tool_calls)[i]).kind = "Unparsed"

\* C12: a frame that fails structured parsing, as a whole or in its delta,
\* is the last frame handled and ends the exchange with an error: no result
\* is assembled
C12_UnparsableFrameAborts ==
    \A i \in 1..pos :
        (stream[i].kind = "malformed" \/ DeltaUnparsed(stream[i])) =>
            /\ i = pos
            /\ spc = "err"
            /\ sresult = NoResponse

NotSkipped(f) == f.kind # "skip"
\* the frames handled so far that were not skipped
Forwardable == SelectSeq(SubSeq(stream, 1, pos), NotSkipped)

\* C16 as stated: every frame delimited in the receive buffer has been sent
\* to the sink with its raw text unchanged
C16_EveryFrameForwardedRaw ==
    spc = "ok" => rx = [i \in 1..Len(stream) |-> RawText(stream[i])]

\* C16 amended: the sink has received, in order, the payload (the text after
\* "data: ") of every frame handled so far that is a data event with a
\* payload, whether the frame then parsed, failed to parse or was [DONE];
\* skipped frames and the frames behind the terminating one are not sent
C16_PayloadForwardedBeforeParsing ==
    rx = [i \in 1..Len(Forwardable) |-> [prefix |-> "", data |-> Forwardable[i]]]

\* C16 witness: a content frame, a skipped frame and a frame that fails
\* parsing: the sink has the payloads of the first and of the third
C16_Witness ==
    /\ spc = "err"
    /\ stream = <<ContentFrame(<<"Hello">>, FALSE), SkipFrame, MalformedFrame>>
    /\ Len(rx) = 2 /\ rx[2].data = MalformedFrame

----------------------------------------------------------------------------
\* Properties of the receive buffer (SpecChunks)

\* the body the chunks are a partition of
Body == ConcatAll(chunks)
\* the body handled as a single chunk
Whole == ProcessBuffer(Body, EmptyAcc, <<>>, <<>>)

\* C18: whatever the partition of the body into chunks, completion_stream
\* extracts and forwards the frames of the unsplit body and returns the
\* value it returns for the unsplit body
C18_ChunkingIrrelevant ==
    spc \in {"ok", "err"} =>
        /\ spc = "ok"
        /\ stream = Whole.stream
        /\ rx = Whole.rx
        /\ sresult = Response(Some(Whole.acc.content_buf), None)

----------------------------------------------------------------------------
\* Properties of Chat::next_msg (Spec)

Returned(status) == pc = "idle" /\ ret.status = status
Persisting == pc \in {"get_or_create_session", "insert_input", "insert_message"}

\* the requests dispatched in this turn, round by round
AllCalls == ConcatAll(batches)

\* the Assistant message echoing one request
EchoOf(call) ==
    [role |-> "assistant", content |-> None, tool_call_id |-> None,
     tool_calls |-> Some(<<[function |-> [arguments |-> Unwrap(call.arguments),
                                          name |-> Unwrap(call.name)],
                            id |-> Unwrap(call.id), type |-> "function"]>>)]

IsResponseTo(m, call) ==
    /\ m.role = "tool" /\ m.tool_call_id = call.id
    /\ IsSome(m.content) /\ m.tool_calls = None

AssistantContent(content) ==
    [role |-> "assistant", content |-> content, tool_call_id |-> None,
     tool_calls |-> None]

\* C1: when next_msg fails inside the loop, the transcript is exactly the
\* transcript before the call
C1_TranscriptRestoredOnFailure ==
    (Returned("err") /\ ret.cause \in {"model", "dispatch", "tool", "no content"}) =>
        transcript = before.transcript

\* C2: a successful turn returns, round by round and in request order, the
\* echo and the Tool response of every request, then exactly one final
\* Assistant content message: 2*(K_1+...+K_R)+1 messages
C2_ReturnedMessages ==
    Returned("ok") =>
        /\ Len(ret.messages) = 2 * Len(AllCalls) + 1
        /\ \A k \in 1..Len(AllCalls) :
               /\ ret.messages[2 * k - 1] = EchoOf(AllCalls[k])
               /\ IsResponseTo(ret.messages[2 * k], AllCalls[k])
               /\ AllCalls[k].name = Some("mock_tool") =>
                      ret.messages[2 * k].content = Some(<<"mock result">>)
        /\ ret.messages[Len(ret.messages)] = AssistantContent(resp.content)
        /\ IsSome(resp.content)

\* C2 witness: one call of mock_tool, then "Found it"
C2_Witness ==
    /\ Returned("ok")
    /\ Len(ret.messages) = 3
    /\ ret.messages[1].tool_calls = Some(<<FunctionCall(CallId(1), "mock_tool", <<"{q:test}">>)>>)
    /\ ret.messages[2] = NewToolCallResponse(<<"mock result">>, CallId(1))
    /\ ret.messages[3] = NewMessage("assistant", <<"Found it">>)

\* C3: a buffered first response with content and no tool calls ends the
\* loop with exactly one Assistant message carrying that content
C3_ToolFreeBufferedResponse ==
    (~streaming /\ batches = <<>> /\ IsSome(resp.content) /\ ~HasToolCalls(resp)) =>
        /\ Persisting => messages = <<AssistantContent(resp.content)>>
        /\ pc = "idle" => /\ ret.status = "ok"
                          /\ ret.messages = <<AssistantContent(resp.content)>>

\* C3 witness: no capability set, empty tool_calls, content "Hello!"
C3_Witness ==
    /\ ~streaming /\ tools = None /\ Returned("ok")
    /\ resp = Response(Some(<<"Hello!">>), Some(<<>>))
    /\ ret.messages = <<NewMessage("assistant", <<"Hello!">>)>>

\* the dispatcher has just returned the results of a batch
Joined == pc = "request" /\ completed # <<>>
LastBatch == batches[Len(batches)]

\* C7: a batch of K registered requests yields exactly 2K messages, the
\* echo of request i at 2i-1 and its response at 2i, whatever the order
\* of completion
C7_DispatchInInputOrder ==
    Joined =>
        LET K == Len(LastBatch)
            base == 2 * (Len(AllCalls) - K)
        IN  /\ Len(messages) = base + 2 * K
            /\ Len(completed) = K
            /\ \A i \in 1..K :
                   /\ messages[base + 2 * i - 1] = EchoOf(LastBatch[i])
                   /\ IsResponseTo(messages[base + 2 * i], LastBatch[i])
            /\ updated_history = requests[Len(requests)] \o SubSeq(messages, base + 1, base + 2 * K)

\* C7 witness: the second invocation completes before the first
C7_Witness ==
    /\ Joined /\ completed = <<2, 1>>
    /\ messages[1] = EchoOf(LastBatch[1])
    /\ messages[3] = EchoOf(LastBatch[2])

\* no message generated by a dispatch is in the transcript part of this turn
NoToolMessageFolded ==
    \A k \in (Len(before.transcript) + 1)..Len(transcript) :
        transcript[k].tool_calls = None /\ transcript[k].tool_call_id = None

\* C8: a batch with a request that does not reach its capability, or whose
\* invocation fails, yields a failure and no message: nothing of the batch
\* is in the working history, the returned messages, the transcript or the
\* store
C8_BatchFailsWhole ==
    /\ pc = "dispatch" =>
           /\ Len(messages) = 2 * (Len(AllCalls) - Len(LastBatch))
           /\ updated_history = requests[Len(requests)]
    /\ (pc = "idle" /\ ret.cause \in {"dispatch", "tool"}) =>
           /\ ret.status = "err" /\ ret.messages = <<>>
           /\ NoToolMessageFolded
           /\ Len(chat_message) = before.rows

\* C8 witness: one invocation of the batch had completed when the other failed
C8_Witness ==
    /\ pc = "idle" /\ ret.cause = "tool" /\ Len(completed) = 2
    /\ Len(LastBatch) = 2

\* the rows stored since next_msg was called
NewRows == SubSeq(chat_message, before.rows + 1, Len(chat_message))
\* the rows of the user message and of the messages msgs
TurnRows(msgs) ==
    <<[session_id |-> Unwrap(session_id), data |-> Serialize(Unwrap(msg))]>> \o
    [k \in 1..Len(msgs) |-> [session_id |-> Unwrap(session_id), data |-> Serialize(msgs[k])]]

SessionEnsured ==
    /\ SessionKeyTaken(session, Unwrap(session_id))
    /\ \A i \in 1..Len(Unwrap(tags)) :
           /\ TagKeyTaken(tag, Normalize(Unwrap(tags)[i]))
           /\ SessionTagKeyTaken(session_tag, Unwrap(session_id),
                                 SelectTagId(tag, Normalize(Unwrap(tags)[i])))

\* C9: with persistence, the session row and its tags exist before any
\* message of the turn is stored, the user message is stored first, then
\* the generated messages in the order returned; a successful turn has
\* stored exactly 1 + n new rows when it returns and nothing of the
\* initial transcript
C9_PersistenceOrder ==
    db =>
        /\ (NewRows # <<>> \/ pc \in {"insert_input", "insert_message"}) => SessionEnsured
        /\ Persisting => IsPrefix(NewRows, TurnRows(messages))
        /\ Returned("ok") =>
               /\ NewRows = TurnRows(ret.messages)
               /\ Len(chat_message) = before.rows + 1 + Len(ret.messages)
               /\ SessionEnsured

\* C9 witness: transcript [System, User("Hi")], response "Hello!": two rows
C9_Witness ==
    /\ db /\ Returned("ok")
    /\ before.transcript = <<SystemMessage>>
    /\ chat_message = << [session_id |-> "s1", data |-> [role |-> "user", content |-> <<"Hi">>]],
                         [session_id |-> "s1", data |-> [role |-> "assistant", content |-> <<"Hello!">>]] >>

\* C10: with persistence, whenever next_msg returns, the rows of the turn
\* are stored all together (and folded into the transcript) or not at all
C10_PersistedAllOrNothing ==
    (db /\ pc = "idle" /\ ret.status \in {"ok", "err"}) =>
        \/ NewRows = <<>>
        \/ /\ ret.status = "ok"
           /\ NewRows = TurnRows(ret.messages)
           /\ transcript = before.transcript \o <<Unwrap(msg)>> \o ret.messages

\* next_msg has failed (or panicked) in the model-request or dispatch phase
LoopFailed ==
    /\ pc \in {"idle", "panicked"}
    /\ ret.cause \in {"model", "no tools", "dispatch", "tool", "no content"}

\* C11: while the loop of a turn runs, and when the turn fails in the
\* model-request or dispatch phase, the store is what it was when next_msg
\* was called: no session row, no row of the user message or of a generated
\* message
C11_NothingStoredOnLoopFailure ==
    (pc \in {"request", "dispatch"} \/ LoopFailed) =>
        /\ storeVars = before.store
        /\ Len(chat_message) = before.rows

\* C11 witness: persistence configured on a new session; an invocation of
\* the second round fails after the messages of the first were generated
C11_Witness ==
    /\ db /\ pc = "idle" /\ ret.status = "err" /\ ret.cause = "tool"
    /\ Len(batches) = 2
    /\ session = <<>> /\ chat_message = <<>>

\* C13: a transport failure or a non-success status on a model request makes
\* the turn fail with an error returned to the caller; the request is not
\* issued again and no result comes out of it
C13_TransportFailureFailsTurn ==
    transport \in {"connect", "body", "status"} =>
        /\ pc = "idle"
        /\ ret.status = "err" /\ ret.cause = "model" /\ ret.messages = <<>>

\* C14: a response with non-empty tool_calls while no capability set is
\* configured ends the turn in a hard error (the `expect` panics): nothing
\* was dispatched or invoked, the request was the only one of the turn, no
\* message is returned, folded into the transcript or stored
C14_ToolCallsWithoutToolsIsHardError ==
    (tools = None /\ HasToolCalls(resp)) =>
        /\ pc = "panicked"
        /\ ret = [status |-> "panic", cause |-> "no tools", messages |-> <<>>]
        /\ batches = <<>> /\ completed = <<>> /\ futures = <<>>
        /\ Len(requests) = 1
        /\ transcript = Append(before.transcript, Unwrap(msg))
        /\ storeVars = before.store

\* C14 witness: a streaming session with persistence and no capability set
\* receives two tool calls
C14_Witness ==
    /\ tools = None /\ streaming /\ db
    /\ pc = "panicked" /\ ret.cause = "no tools"
    /\ Len(Unwrap(resp.tool_calls)) = 2
    /\ chat_message = <<>>

\* the loop of the turn has ended on a response of the endpoint
EndedOnResponse ==
    /\ requests # <<>> /\ pc \notin {"request", "dispatch"}
    /\ transport = "ok"
    /\ ret.cause \notin {"model", "dispatch", "tool"}

\* the response carries no content: the key is absent, or the streaming
\* client accumulated no content delta
NoContent(r) == r.content = None \/ (streaming /\ r.content = Some(<<>>))

\* C15: a terminal response with neither content nor tool_calls makes
\* next_msg return a failure to its caller, in buffered and in streaming
\* mode alike, with no message returned or stored
C15_NoFinalMessageFails ==
    (EndedOnResponse /\ ~HasToolCalls(resp) /\ NoContent(resp)) =>
        /\ Returned("err")
        /\ ret.messages = <<>>
        /\ storeVars = before.store

\* the frame ends the loops of completion_stream, normally or not
Stops(f) == Terminates(f) \/ f.kind \in {"malformed", "nochoices"}

\* the frames of s up to and including the first that ends the exchange
HandledPrefix(s) ==
    IF \E i \in 1..Len(s) : Stops(s[i])
    THEN SubSeq(s, 1, CHOOSE i \in 1..Len(s) :
                         Stops(s[i]) /\ \A j \in 1..(i - 1) : ~Stops(s[j]))
    ELSE s

\* what the sink receives of the stream s: the payloads of the frames
\* handled and not skipped, in arrival order, each once
Forwarded(s) ==
    LET fs == SelectSeq(HandledPrefix(s), NotSkipped)
    IN  [i \in 1..Len(fs) |-> [prefix |-> "", data |-> fs[i]]]

\* C17: what the sink has received in a turn is, round after round, the
\* frames of each exchange in arrival order, none reordered or duplicated;
\* the frames of an earlier round precede those of a later round
C17_SinkInArrivalOrder ==
    rx = IF streaming
         THEN ConcatAll([k \in 1..Len(arrived) |-> Forwarded(arrived[k])])
         ELSE <<>>

\* C17 witness: a round of tool-call frames, then a round of content frames
C17_Witness ==
    /\ streaming /\ Returned("ok")
    /\ Len(arrived) = 2
    /\ Len(rx) = 5
    /\ rx[3].data = DoneFrame
    /\ rx[4].data = ContentFrame(<<"Found it">>, FALSE)

\* the message carries content or tool-call requests, never both
ContentXorToolCalls(m) ==
    /\ IsSome(m.content) # IsSome(m.tool_calls)
    /\ IsSome(m.tool_calls) => (m.role = "assistant" /\ m.content = None)
    /\ IsSome(m.tool_call_id) => m.role = "tool"

\* the messages the Chat holds: generated, folded, returned, or the output
\* of an invocation
MessagesAtHand ==
    {messages[i] : i \in 1..Len(messages)}
    \cup {updated_history[i] : i \in 1..Len(updated_history)}
    \cup {transcript[i] : i \in 1..Len(transcript)}
    \cup {ret.messages[i] : i \in 1..Len(ret.messages)}
    \cup UNION {{futures[i].out[k] : k \in 1..Len(futures[i].out)} : i \in 1..Len(futures)}

\* C20: every message generated by the loop, the clients and the dispatcher
\* carries either content or tool-call requests, never both: tool_calls only
\* on Assistant messages without content, tool_call_id only on Tool messages
C20_ContentXorToolCalls ==
    \A m \in MessagesAtHand : ContentXorToolCalls(m)

\* C20 witness: a turn of two requests has returned two echoes, two Tool
\* responses and the final Assistant message
C20_Witness ==
    /\ Returned("ok") /\ Len(ret.messages) = 5
    /\ IsSome(ret.messages[1].tool_calls) /\ ret.messages[1].content = None
    /\ IsSome(ret.messages[2].tool_call_id) /\ ret.messages[2].role = "tool"
    /\ IsSome(ret.messages[5].content) /\ ret.messages[5].tool_calls = None

\* the optional fields of a serialized message
OptionalKeys == {"content", "tool_call_id", "tool_calls"}
\* the serialized form d carries exactly the fields m has, with their values
OmitsAbsent(d, m) ==
    /\ DOMAIN d = {"role"} \cup {k \in OptionalKeys : m[k] # None}
    /\ d.role = m.role
    /\ \A k \in DOMAIN d \ {"role"} : d[k] = m[k][1]
\* the serialized form of a Tool response
IsToolRow(d) ==
    /\ DOMAIN d = {"role", "content", "tool_call_id"}
    /\ d.role = "tool"

\* C21: a Tool response serializes with role "tool", its content, its
\* tool_call_id and no tool_calls key; every stored message carries exactly
\* the optional fields that are present, and none of them as null
C21_AbsentFieldsOmitted ==
    (db /\ Returned("ok")) =>
        /\ Len(NewRows) = Len(ret.messages) + 1
        /\ OmitsAbsent(NewRows[1].data, Unwrap(msg))
        /\ \A k \in 1..Len(ret.messages) :
               /\ OmitsAbsent(NewRows[k + 1].data, ret.messages[k])
               /\ ret.messages[k].role = "tool" => IsToolRow(NewRows[k + 1].data)

\* C21 witness: a stored turn holds the row of a tool-call request without
\* content and the row of a Tool response with its content and call id
C21_Witness ==
    /\ db /\ Returned("ok") /\ Len(ret.messages) >= 3
    /\ DOMAIN NewRows[2].data = {"role", "tool_calls"}
    /\ NewRows[3].data =
           [role |-> "tool", content |-> ret.messages[2].content[1],
            tool_call_id |-> CallId(1)]

\* the rows of session id in the session table
SessionRows(T, id) == {i \in 1..Len(T.session) : T.session[i].id = id}
\* the links of session id to the tag called name
Links(T, id, name) ==
    {i \in 1..Len(T.session_tag) :
        /\ T.session_tag[i].session_id = id
        /\ \E j \in 1..Len(T.tag) :
               T.tag[j].name = name /\ T.tag[j].id = T.session_tag[i].tag_id}
\* T holds one session row for id and one link per normalized tag of ts
OneRowOneLinkPerTag(T, id, ts) ==
    /\ Cardinality(SessionRows(T, id)) = 1
    /\ \A k \in 1..Len(ts) :
           /\ Cardinality({j \in 1..Len(T.tag) : T.tag[j].name = Normalize(ts[k])}) = 1
           /\ Cardinality(Links(T, id, Normalize(ts[k]))) = 1

\* C22: from any store the calls have built, get_or_create_session(id, ts)
\* leaves one session row for id and one link per normalized tag; the same
\* call again, directly or after a call for another session, changes no table
C22_GetOrCreateSessionIdempotent ==
    \A id \in SessionIds, ts \in TagLists :
        LET T1 == SessionTables(Tables, id, ts)
        IN  /\ OneRowOneLinkPerTag(T1, id, ts)
            /\ SessionTables(T1, id, ts) = T1
            /\ \A id2 \in SessionIds \ {id}, ts2 \in TagLists :
                   LET T2 == SessionTables(T1, id2, ts2)
                   IN  /\ SessionTables(T2, id, ts) = T2
                       /\ OneRowOneLinkPerTag(T2, id, ts)

\* C22 witness: s1 was created with its two tags, s2 with one of them, and
\* the call for s1 was made again: the tables hold two sessions, two tags
\* and three links
C22_Witness ==
    /\ pc = "sessions"
    /\ session_id = Some("s1") /\ tags = Some(Tags)
    /\ session = <<[id |-> "s1"], [id |-> "s2"]>>
    /\ Len(tag) = 2 /\ Len(session_tag) = 3
    /\ session_tag[3].session_id = "s2"

\* C23: every step of next_msg leaves the transcript it found as a prefix of
\* the transcript it leaves, so no message is changed or removed and the
\* transcript before the call stays a prefix; when the call has returned its
\* messages the transcript is the previous transcript, the user message and
\* the returned messages in order
C23_TranscriptAppendOnly ==
    [][ /\ IsPrefix(transcript, transcript')
        /\ IsPrefix(before'.transcript, transcript')
        /\ Returned("ok")' =>
               transcript' = before'.transcript \o <<Unwrap(msg')>> \o ret'.messages
      ]_vars

\* C23 witness: a later turn of a session with three earlier messages has
\* returned an echo, a Tool response and the final message
C23_Witness ==
    /\ Returned("ok")
    /\ Len(before.transcript) = 3 /\ Len(ret.messages) = 3
    /\ transcript = before.transcript \o <<Unwrap(msg)>> \o ret.messages
    /\ ret.messages[2].role = "tool"

\* the tool calls of round r are those of a response the stream of exchange
\* r decodes to
DecodedBatch(r) ==
    /\ r <= Len(arrived)
    /\ \E o \in CompletionStream(arrived[r]) :
           /\ o.status = "ok" /\ HasToolCalls(o.resp)
           /\ batches[r] = Unwrap(o.resp.tool_calls)
\* the response at hand is one the stream of the last exchange decodes to
DecodedFinal ==
    /\ Len(arrived) = Len(batches) + 1
    /\ \E o \in CompletionStream(arrived[Len(arrived)]) :
           o.status = "ok" /\ o.resp = resp

\* C24: in a streaming turn, whether or not the consumer of the sink is
\* still there, every dispatch round works on the tool calls its stream
\* decodes to, a turn that returns went on to a final response decoded from
\* the last stream and returns (and stores) the echoes, the Tool responses
\* and that content, and a failed model request is a failure of the endpoint
\* or of decoding, never of the sink
C24_SinkDisconnectChangesNothing ==
    streaming =>
        /\ \A r \in 1..Len(batches) : DecodedBatch(r)
        /\ Returned("ok") =>
               /\ DecodedFinal
               /\ Len(ret.messages) = 2 * Len(AllCalls) + 1
               /\ \A k \in 1..Len(AllCalls) :
                      /\ ret.messages[2 * k - 1] = EchoOf(AllCalls[k])
                      /\ IsResponseTo(ret.messages[2 * k], AllCalls[k])
               /\ ret.messages[Len(ret.messages)] = AssistantContent(resp.content)
               /\ db => NewRows = TurnRows(ret.messages)
        /\ (pc = "idle" /\ ret.cause = "model" /\ transport = "ok") =>
               \E o \in CompletionStream(arrived[Len(arrived)]) : o.status = "err"

\* C24 witness: the consumer went away after the first frame of the first
\* exchange; the turn dispatched its round, queried again, returned three
\* messages and stored them
C24_Witness ==
    /\ streaming /\ db /\ receiver = "dropped" /\ Returned("ok")
    /\ Len(arrived) = 2 /\ Len(arrived[1]) >= 2 /\ Len(rx) = 1
    /\ Len(batches) = 1 /\ Len(ret.messages) = 3
    /\ Len(NewRows) = 4

\* the turn is over: next_msg has returned to its caller, or the model request
\* or the missing capability set has ended it
TurnOver ==
    \/ pc = "idle"
    \/ pc = "panicked" /\ ret.cause \in {"model", "no tools"}

\* C25: a response with tool calls starts one dispatch round on exactly
\* those calls, and only such a response does; and when every request,
\* invocation and store call returns, a turn whose model comes to a response
\* without tool calls returns to its caller
C25_LoopTerminates ==
    /\ [][pc = "request" =>
             /\ (pc' = "dispatch") <=> (HasToolCalls(resp') /\ tools # None)
             /\ pc' = "dispatch" =>
                    /\ Len(batches') = Len(batches) + 1
                    /\ Some(batches'[Len(batches')]) = resp'.tool_calls
         ]_vars
    /\ (pc = "request") ~> TurnOver

\* the same with a turn also counted as over when the buffered loop has
\* panicked on a response without content
C25_TerminatesOrPanics ==
    (pc = "request") ~> (TurnOver \/ pc = "panicked")

\* the frame is decoded and carries a finish_reason or a Stop delta
EndsByDelta(f) ==
    f.kind = "chunk" /\ (f.finish \/ Delta(f.delta).kind = "Stop")
\* the accumulation of the frames before frame i
AccBefore(i) == RunStream(EmptyAcc, SubSeq(stream, 1, i - 1), <<>>).acc

\* C26: a frame with a finish_reason, whatever its delta, or with a Stop
\* delta, is the last frame handled: nothing of it is accumulated, the
\* exchange goes on to assemble its result, and no frame behind it, in the
\* buffer or not, is forwarded, decoded or accumulated
C26_FinishReasonTerminates ==
    \A i \in 1..pos :
        EndsByDelta(stream[i]) =>
            /\ i = pos
            /\ spc \in {"assemble", "ok"}
            /\ acc = AccBefore(i)
            /\ Len(rx) = Cardinality({j \in 1..i : NotSkipped(stream[j])})
            /\ rx[Len(rx)].data = stream[i]

\* C26 witness: an ArgsDelta frame with a finish_reason follows the Init of
\* its call and precedes [DONE] in the buffer: the call keeps the arguments
\* of its Init and [DONE] is never read
C26_Witness ==
    /\ spc = "ok" /\ pos = 2
    /\ stream = <<ToolCallFrame(<<Call0>>, FALSE),
                  ToolCallFrame(<<ArgsSub(0, <<"z">>)>>, TRUE), DoneFrame>>
    /\ acc = RunStream(EmptyAcc, <<ToolCallFrame(<<Call0>>, FALSE)>>, <<>>).acc
    /\ Len(rx) = 2

\* the texts of a buffer
Texts(buf) == {buf[k] : k \in 1..Len(buf)}
\* the entry of the accumulation as the result carries it
EntryCall(e) == RawCall(Some(e.id), Some(e.name), Some(e.arguments), Some(e.index))

\* C27: an exchange that ends without error has returned one result; with
\* accumulation entries it carries one tool call per entry and no content,
\* whatever content was accumulated; without entries it carries the content
\* buffer and no tool calls; no reasoning text is in it.  An exchange that
\* has not ended, or has failed, has returned nothing
C27_OneResultContentOrToolCalls ==
    /\ spc # "ok" => sresult = NoResponse
    /\ spc = "ok" =>
           /\ IsSome(sresult.content) # IsSome(sresult.tool_calls)
           /\ DOMAIN acc.tool_calls # {} =>
                  /\ sresult.content = None
                  /\ Len(Unwrap(sresult.tool_calls)) = Cardinality(DOMAIN acc.tool_calls)
                  /\ \A i \in DOMAIN acc.tool_calls :
                         \E k \in 1..Len(Unwrap(sresult.tool_calls)) :
                             Unwrap(sresult.tool_calls)[k] = EntryCall(acc.tool_calls[i])
           /\ DOMAIN acc.tool_calls = {} =>
                  sresult = Response(Some(acc.content_buf), None)
           /\ IsSome(sresult.content) =>
                  Texts(Unwrap(sresult.content)) \cap Texts(acc.reasoning_buf) = {}

\* C27 witness: content, reasoning and a tool call were accumulated; the
\* result carries the call alone
C27_Witness ==
    /\ spc = "ok"
    /\ acc.content_buf = <<"Hello">> /\ acc.reasoning_buf = <<"Thinking">>
    /\ DOMAIN acc.tool_calls = {0}
    /\ sresult.content = None
    /\ Len(Unwrap(sresult.tool_calls)) = 1

\* the frame is decoded as a ToolCall delta and accumulated
IsToolCallFrame(f) ==
    f.kind = "chunk" /\ ~f.finish /\ Delta(f.delta).kind = "ToolCall"
\* the positions of the ArgsDelta sub-deltas of subs whose index has no entry
\* in m and no Init before them in subs
Orphans(m, subs) ==
    {k \in 1..Len(subs) :
        /\ subs[k].kind = "ArgsDelta"
        /\ subs[k].index \notin DOMAIN m
        /\ \A j \in 1..(k - 1) : subs[j].index # subs[k].index}

\* C28: when a frame with an ArgsDelta for an index without entry is handled,
\* the stream goes on reading, the content and reasoning buffers are
\* unchanged, no entry is created for that index unless an Init of the same
\* frame creates it, the entries no sub-delta of the frame names are
\* unchanged, and a frame of such ArgsDeltas alone changes nothing
C28_OrphanArgsDeltaIgnored ==
    [][ (pos' = pos + 1 /\ IsToolCallFrame(stream'[pos'])) =>
          LET subs == Delta(stream'[pos'].delta).subs
              m == acc.tool_calls
              orphans == Orphans(m, subs)
          IN  orphans # {} =>
                /\ spc' = "read"
                /\ acc'.content_buf = acc.content_buf
                /\ acc'.reasoning_buf = acc.reasoning_buf
                /\ \A k \in orphans :
                       (\A j \in 1..Len(subs) : subs[j].index = subs[k].index =>
                                                   subs[j].kind = "ArgsDelta")
                       => subs[k].index \notin DOMAIN acc'.tool_calls
                /\ \A i \in DOMAIN m :
                       (\A j \in 1..Len(subs) : subs[j].index # i)
                       => (i \in DOMAIN acc'.tool_calls /\ acc'.tool_calls[i] = m[i])
                /\ orphans = 1..Len(subs) => acc' = acc
      ]_vars

\* C28 witness: after the Init of call 0, a frame with an ArgsDelta for
\* index 1 and one for index 0 was handled: no entry 1, entry 0 extended
C28_Witness ==
    /\ spc = "read" /\ pos = 2
    /\ stream = <<ToolCallFrame(<<Call0>>, FALSE),
                  ToolCallFrame(<<ArgsSub(1, <<"x}">>), ArgsSub(0, <<"y">>)>>, FALSE)>>
    /\ DOMAIN acc.tool_calls = {0}
    /\ acc.tool_calls[0].arguments = <<"{q:", "y">>

\* the raw sub-delta carries an index and an argument fragment only
IsBareSub(raw) ==
    raw.id = None /\ raw.name = None /\ raw.type = None /\ IsSome(raw.arguments)
\* a frame without finish_reason whose tool_calls are bare sub-deltas, one
\* per index, each for an entry of m
IsBareContinuation(f, m) ==
    /\ f.kind = "chunk" /\ ~f.finish
    /\ f.delta.content = None /\ f.delta.reasoning = None
    /\ IsSome(f.delta.tool_calls)
    /\ LET raws == Unwrap(f.delta.tool_calls)
       IN  /\ raws # <<>>
           /\ \A k \in 1..Len(raws) :
                  /\ IsBareSub(raws[k]) /\ raws[k].index \in DOMAIN m
                  /\ \A j \in 1..(k - 1) : raws[j].index # raws[k].index

\* C29: when a continuation frame of bare sub-deltas for known indices is
\* handled, the stream goes on reading and each fragment is appended to the
\* arguments of its entry
C29_BareContinuationAppends ==
    [][ (pos' = pos + 1 /\ IsBareContinuation(stream'[pos'], acc.tool_calls)) =>
          LET raws == Unwrap(stream'[pos'].delta.tool_calls)
          IN  /\ spc' = "read"
              /\ \A k \in 1..Len(raws) :
                     acc'.tool_calls[raws[k].index].arguments =
                         acc.tool_calls[raws[k].index].arguments \o Unwrap(raws[k].arguments)
      ]_vars

\* the transcript with the new user message
Seeded == Append(before.transcript, Unwrap(msg))
\* the requests dispatched in the rounds before request r
CallsBefore(r) == ConcatAll(SubSeq(batches, 1, r - 1))

\* C30: the r-th history sent to the model in a turn is the transcript with
\* the new user message followed by the echo and the response of every
\* request of rounds 1..r-1, in order; while the loop runs these are the
\* first messages it has generated, and the transcript stays the transcript
\* with the user message
C30_WorkingHistory ==
    /\ \A r \in 1..Len(requests) :
           LET calls == CallsBefore(r)
               h == requests[r]
               n == Len(Seeded)
           IN  /\ Len(h) = n + 2 * Len(calls)
               /\ SubSeq(h, 1, n) = Seeded
               /\ \A k \in 1..Len(calls) :
                      /\ h[n + 2 * k - 1] = EchoOf(calls[k])
                      /\ IsResponseTo(h[n + 2 * k], calls[k])
               /\ pc \in {"request", "dispatch"} =>
                      h = Seeded \o SubSeq(messages, 1, 2 * Len(calls))
    /\ (pc \in {"request", "dispatch"} \/ LoopFailed) => transcript = Seeded

\* C30 witness: the third request of a turn is being prepared: the second
\* carried the two messages of round 1, the working history holds those of
\* both rounds, and the transcript still ends with the user message
C30_Witness ==
    /\ pc = "request" /\ Len(requests) = 2 /\ Len(batches) = 2
    /\ Len(requests[2]) = Len(Seeded) + 2 * Len(batches[1])
    /\ updated_history = Seeded \o messages
    /\ Len(messages) >= 4
    /\ transcript = Seeded

----------------------------------------------------------------------------
\* C31: within a turn a model request is issued only from the head of the
\* loop; when a batch was dispatched before it, every invocation of that
\* batch has completed successfully, and the step in which an invocation
\* fails ends the turn with an error without a further request
C31_RequestAfterWholeBatch ==
    [][ /\ Len(requests') > Len(requests) =>
            /\ pc = "request" /\ ret = NoRet
            /\ batches # <<>> =>
                   /\ Len(futures) = Len(LastBatch)
                   /\ Len(completed) = Len(LastBatch)
                   /\ \A i \in 1..Len(LastBatch) :
                          /\ futures[i].state = "ready"
                          /\ futures[i].call = LastBatch[i]
                          /\ \E k \in 1..Len(completed) : completed[k] = i
        /\ (pc = "dispatch" /\ pc' # "dispatch") =>
            \/ /\ pc' = "request"
               /\ \A i \in 1..Len(futures') : futures'[i].state = "ready"
            \/ /\ pc' = "idle" /\ ret'.status = "err" /\ ret'.messages = <<>>
               /\ requests' = requests
      ]_vars

\* C31 witness: a turn whose first response asked for two invocations has
\* issued its second request and returned
C31_Witness ==
    /\ Returned("ok") /\ Len(requests) = 2
    /\ Len(batches) = 1 /\ Len(batches[1]) = 2

----------------------------------------------------------------------------
\* the Tool message at place k of msgs follows the echo of its request
FollowsItsRequest(msgs, k) ==
    /\ k > 1
    /\ msgs[k - 1].role = "assistant"
    /\ IsSome(msgs[k - 1].tool_calls)
    /\ Len(Unwrap(msgs[k - 1].tool_calls)) = 1
    /\ Some(Unwrap(msgs[k - 1].tool_calls)[1].id) = msgs[k].tool_call_id

\* C32: a request that has been served invoked, exactly once and with its
\* argument text, the registered capability that bears its name; it yields
\* the Assistant echo with its id, name and arguments as the single
\* tool_calls entry, then the Tool message with the text the capability
\* returned and its id; every Tool message of the returned list follows the
\* echo of its request
C32_DispatchedRequestPair ==
    /\ \A i \in 1..Len(futures) :
           futures[i].state = "ready" =>
               LET call == futures[i].call
               IN  /\ Len(futures[i].invoked) = 1
                   /\ Unwrap(tools)[futures[i].invoked[1].tool] = Unwrap(call.name)
                   /\ futures[i].invoked[1].args = Unwrap(call.arguments)
                   /\ futures[i].out =
                          << EchoOf(call),
                             [role |-> "tool",
                              content |-> Some(CallResult(Unwrap(call.name),
                                                          Unwrap(call.arguments))),
                              tool_call_id |-> call.id, tool_calls |-> None] >>
    /\ Returned("ok") =>
           \A k \in 1..Len(ret.messages) :
               ret.messages[k].role = "tool" => FollowsItsRequest(ret.messages, k)

\* C32 witness: a batch of two requests was served; the second went to
\* other_tool, which returns its argument text behind "other result"
C32_Witness ==
    /\ Joined /\ Len(futures) = 2
    /\ futures[2].call.name = Some("other_tool")
    /\ futures[2].invoked = <<[tool |-> 2, args |-> <<"{}">>]>>
    /\ futures[2].out[2] = NewToolCallResponse(<<"other result", "{}">>, CallId(2))

----------------------------------------------------------------------------
\* the entry for index i keeps its id and name over the step and its
\* arguments grow by appending
EntryGrows(i) ==
    /\ i \in DOMAIN acc'.tool_calls
    /\ acc'.tool_calls[i].id = acc.tool_calls[i].id
    /\ acc'.tool_calls[i].name = acc.tool_calls[i].name
    /\ IsPrefix(acc.tool_calls[i].arguments, acc'.tool_calls[i].arguments)

\* the Init sub-deltas for index i that the frame f makes the loop apply
AppliedInits(f, i) ==
    IF f.kind = "chunk" /\ ~f.finish /\ Delta(f.delta).kind = "ToolCall"
    THEN InitPositions(Delta(f.delta).subs, i)
    ELSE {}

\* C36 as stated: once an accumulation entry exists for an index, its id and
\* name never change and its arguments only grow by appending
C36_EntryOnlyGrows ==
    [][\A i \in DOMAIN acc.tool_calls : EntryGrows(i)]_vars

\* C36 amended: an accumulation entry is never removed; while no further
\* Init sub-delta for its index is applied, its id and name stay and its
\* arguments only grow by appending; a further Init for its index replaces
\* it by the id, the name and the fragment of that Init, followed by the
\* ArgsDelta fragments behind it in the frame
C36_EntryGrowsUntilNextInit ==
    [][\A i \in DOMAIN acc.tool_calls :
          /\ i \in DOMAIN acc'.tool_calls
          /\ pos' = pos => EntryGrows(i)
          /\ pos' = pos + 1 =>
                 LET f == stream'[pos']
                     subs == Delta(f.delta).subs
                 IN  IF AppliedInits(f, i) = {} THEN EntryGrows(i)
                     ELSE LET k == Max(AppliedInits(f, i))
                          IN  acc'.tool_calls[i] =
                                  ToolCallFinal(subs[k].id, i, subs[k].name,
                                      subs[k].arguments \o ArgsAfter(subs, i, k))
      ]_vars

\* C36 witness: the entry of index 0 has taken a fragment behind its Init
C36_Witness ==
    /\ pos = 2
    /\ stream[1] = ToolCallFrame(<<Call0>>, FALSE)
    /\ stream[2] = ToolCallFrame(<<ArgsSub(0, <<"test}">>)>>, FALSE)
    /\ acc.tool_calls[0] = ToolCallFinal(<<"call", 0>>, 0, "mock_tool", <<"{q:", "test}">>)

----------------------------------------------------------------------------
\* the texts of the body that a delimiter follows, and what is left behind
\* the last delimiter
RECURSIVE Events(_)
Events(b) ==
    IF ~HasDelimiter(b) THEN <<>>
    ELSE <<Trim(SubSeq(b, 1, Find2NL(b) - 1))>> \o
         Events(SubSeq(b, Find2NL(b) + 2, Len(b)))
RECURSIVE Fragment(_)
Fragment(b) ==
    IF ~HasDelimiter(b) THEN b ELSE Fragment(SubSeq(b, Find2NL(b) + 2, Len(b)))

NotEmpty(e) == e # <<>>
IsContentEvent(e) == e # <<>> /\ e # <<"T">>
\* the body has no complete [DONE] event (its events neither stop nor finish)
NoTerminator == \A k \in 1..Len(Events(Body)) : Events(Body)[k] # <<"D">>

\* C35: a body that ends without a terminator does not make the exchange
\* fail; when the stream has ended, the fragment behind the last delimiter
\* is what is left in the buffer, the sink has the complete events and
\* nothing else, the accumulator holds what the complete events carry, and
\* the result is the tool calls if an entry exists, else the content
C35_EndWithoutTerminator ==
    NoTerminator =>
        /\ spc # "err"
        /\ spc \in {"assemble", "ok"} =>
               LET events == SelectSeq(Events(Body), NotEmpty)
                   called == \E k \in 1..Len(events) : events[k] = <<"T">>
                   content == ConcatAll(SelectSeq(events, IsContentEvent))
               IN  /\ received = Len(chunks)
                   /\ buffer = Fragment(Body)
                   /\ rx = events
                   /\ acc.content_buf = content
                   /\ DOMAIN acc.tool_calls = IF called THEN {0} ELSE {}
                   /\ spc = "ok" =>
                          sresult =
                              IF called
                              THEN Response(None,
                                       Some(<<RawCall(Some(<<"call", 0>>), Some("mock_tool"),
                                                      Some(<<"{q:">>), Some(0))>>))
                              ELSE Response(Some(content), None)

\* C35 witness: a tool-call event, a content event and an incomplete
\* fragment, in three chunks or more: the result is the tool call, the
\* fragment is left in the buffer
C35_Witness ==
    /\ spc = "ok" /\ Len(chunks) >= 3
    /\ buffer = <<"t">>
    /\ rx = << <<"T">>, <<"a">> >>
    /\ IsSome(sresult.tool_calls) /\ sresult.content = None

----------------------------------------------------------------------------
\* both loops of the mode have run on the input
BothRan == loops.free # NoOut /\ loops.method # NoOut
SameOutcome ==
    /\ loops.free.status = loops.method.status
    /\ loops.free.messages = loops.method.messages

\* C34: on the same history, capability set (or none) and responses the free
\* function and the method of Chat of the same mode end alike: the same
\* returned messages, or a failure in the same cases
C34_LoopsEquivalent == BothRan => SameOutcome

\* the streaming loops end alike, with the same requests and the same sink
StreamLoopsEquivalent ==
    (BothRan /\ loops.mode = "stream") => loops.free = loops.method
\* so do the buffered loops when a capability set is configured or the
\* first request fails
BufferedLoopsEquivalentWithTools ==
    (BothRan /\ (loops.tools # None \/ loops.script[1].status # "ok")) =>
        loops.free = loops.method

----------------------------------------------------------------------------
\* Properties of chat_handler (SpecHandler)

ErrorChunksSent(r) ==
    Cardinality({k \in 1..Len(handlers[r].sent) : handlers[r].sent[k] = ErrorChunk})

\* C33: when chat_stream has failed in the task of a request, the task has
\* sent exactly one error chunk on the sink of that request and has stored
\* neither the user message nor a generated message
C33_ErrorChunkOnFailure ==
    \A r \in DOMAIN handlers :
        (handlers[r].result # NoOut /\ handlers[r].result.status # "ok") =>
            /\ ErrorChunksSent(r) = 1
            /\ handlers[r].rows = <<>>

\* the same for the failures chat_stream returns as Err: the error chunk is
\* the last item passed to the sink
ErrorChunkOnReturnedError ==
    \A r \in DOMAIN handlers :
        (handlers[r].result # NoOut /\ handlers[r].result.status = "err") =>
            /\ ErrorChunksSent(r) = 1
            /\ handlers[r].sent[Len(handlers[r].sent)] = ErrorChunk
            /\ handlers[r].rows = <<>> /\ handlers[r].pc = "done"
\* a panic of chat_stream ends the task: nothing is sent behind the frames
\* and nothing is stored
NoErrorChunkOnPanic ==
    \A r \in DOMAIN handlers :
        (handlers[r].result # NoOut /\ handlers[r].result.status = "panic") =>
            /\ ErrorChunksSent(r) = 0
            /\ handlers[r].rows = <<>> /\ handlers[r].pc = "panicked"

\* C37: every transcript chat_handler sends to the model, in the first turn
\* of a session and in the later ones, begins with the System message
C37_TranscriptBeginsWithSystem ==
    \A r \in DOMAIN handlers :
        handlers[r].result # NoOut =>
            \A k \in 1..Len(handlers[r].result.requests) :
                handlers[r].result.requests[k][1] = SystemMessage

\* the first turn of a session does
FirstTurnBeginsWithSystem ==
    \A r \in DOMAIN handlers :
        (handlers[r].result # NoOut /\ handlers[r].seen = 0) =>
            \A k \in 1..Len(handlers[r].result.requests) :
                handlers[r].result.requests[k][1] = SystemMessage

\* the task of q has stored its turn
TurnStored(q) == handlers[q].pc = "done" /\ handlers[q].result.status = "ok"
Contiguous(P) == \A k \in 1..(Len(P) - 1) : P[k + 1] = P[k] + 1
\* the read of r saw all rows of P or none
AllOrNone(r, P) ==
    \/ \A k \in 1..Len(P) : P[k] <= handlers[r].seen
    \/ \A k \in 1..Len(P) : P[k] > handlers[r].seen

\* C38: for two requests of one session, the rows of a stored turn are
\* contiguous in the stored order and the transcript the other request read
\* holds all of them or none
C38_TurnsNotInterleaved ==
    \A r, q \in DOMAIN handlers :
        (r # q /\ handlers[r].session_id = handlers[q].session_id /\ TurnStored(q)) =>
            /\ Contiguous(handlers[q].rows)
            /\ handlers[r].pc \notin {"get_or_create_session", "find_chat_session_by_id"}
                   => AllOrNone(r, handlers[q].rows)

\* requests of different sessions, or one after the other: each stored turn
\* is the user message and the generated messages in order
TurnRowsInOrder ==
    \A q \in DOMAIN handlers :
        TurnStored(q) =>
            /\ Len(handlers[q].rows) = 1 + Len(handlers[q].result.messages)
            /\ chat_message[handlers[q].rows[1]] =
                   Row(handlers[q].session_id, handlers[q].user_msg)
            /\ \A k \in 1..Len(handlers[q].result.messages) :
                   /\ handlers[q].rows[k + 1] > handlers[q].rows[k]
                   /\ chat_message[handlers[q].rows[k + 1]] =
                          Row(handlers[q].session_id, handlers[q].result.messages[k])

====
